---- MODULE Spec2Model ----
(***************************************************************************)
(* Console mode of the portfolio site: the read-only virtual filesystem    *)
(* (VirtualFileSystem), the command interpreter (CommandParser) and the    *)
(* session state they keep.                                                *)
(*                                                                         *)
(* JavaScript strings are TLA+ strings; a character is a string of length  *)
(* one.  The module text is ASCII and a TLA+ string cannot hold a grave   *)
(* accent, so those characters of the source are written with stand-ins:   *)
(* EmDash, Bullet, Backtick and the three tree glyph runs (LastConnector,  *)
(* MidConnector, Continuation).                                            *)
(* An absent / undefined / null JavaScript value of an optional field is   *)
(* the empty sequence None, a present value v is Some(v) = <<v>>.          *)
(***************************************************************************)
EXTENDS Integers, Sequences, FiniteSets, TLC

None == <<>>
Some(v) == <<v>>

(***************************************************************************)
(* Bounds of the exploration.                                              *)
(***************************************************************************)
MaxHistory == 2

(***************************************************************************)
(* String primitives of the JavaScript runtime, as the code uses them.     *)
(***************************************************************************)
At(s, i) == SubSeq(s, i, i)

WhiteSpace == {" ", "\t", "\n"}

Digits == {"0", "1", "2", "3", "4", "5", "6", "7", "8", "9"}

LowerLetters == {"a", "b", "c", "d", "e", "f", "g", "h", "i", "j", "k", "l", "m",
                 "n", "o", "p", "q", "r", "s", "t", "u", "v", "w", "x", "y", "z"}

UpperToLower == [c \in {"A", "B", "C", "D", "E", "F", "G", "H", "I", "J", "K", "L", "M",
                        "N", "O", "P", "Q", "R", "S", "T", "U", "V", "W", "X", "Y", "Z"} |->
                   CASE c = "A" -> "a" [] c = "B" -> "b" [] c = "C" -> "c" [] c = "D" -> "d"
                     [] c = "E" -> "e" [] c = "F" -> "f" [] c = "G" -> "g" [] c = "H" -> "h"
                     [] c = "I" -> "i" [] c = "J" -> "j" [] c = "K" -> "k" [] c = "L" -> "l"
                     [] c = "M" -> "m" [] c = "N" -> "n" [] c = "O" -> "o" [] c = "P" -> "p"
                     [] c = "Q" -> "q" [] c = "R" -> "r" [] c = "S" -> "s" [] c = "T" -> "t"
                     [] c = "U" -> "u" [] c = "V" -> "v" [] c = "W" -> "w" [] c = "X" -> "x"
                     [] c = "Y" -> "y" [] c = "Z" -> "z"]

\* String.prototype.toLowerCase
RECURSIVE toLowerCase(_)
toLowerCase(s) ==
    IF s = "" THEN ""
    ELSE IF Len(s) = 1 THEN (IF s \in DOMAIN UpperToLower THEN UpperToLower[s] ELSE s)
    ELSE LET half == Len(s) \div 2
         IN toLowerCase(SubSeq(s, 1, half)) \o toLowerCase(SubSeq(s, half + 1, Len(s)))

\* String.prototype.trim
RECURSIVE trimStart(_)
trimStart(s) == IF s # "" /\ At(s, 1) \in WhiteSpace THEN trimStart(Tail(s)) ELSE s

RECURSIVE trimEnd(_)
trimEnd(s) ==
    IF s # "" /\ At(s, Len(s)) \in WhiteSpace THEN trimEnd(SubSeq(s, 1, Len(s) - 1)) ELSE s

trim(s) == trimEnd(trimStart(s))

\* String.prototype.startsWith / endsWith / includes / indexOf / lastIndexOf
startsWith(s, p) == Len(p) <= Len(s) /\ SubSeq(s, 1, Len(p)) = p

endsWith(s, p) == Len(p) <= Len(s) /\ SubSeq(s, Len(s) - Len(p) + 1, Len(s)) = p

includes(s, f) == \E i \in 1..(Len(s) - Len(f) + 1) : SubSeq(s, i, i + Len(f) - 1) = f

\* 0-based offset of the first occurrence, -1 when there is none
indexOf(s, f) ==
    IF includes(s, f)
    THEN (CHOOSE i \in 1..(Len(s) - Len(f) + 1) :
             /\ SubSeq(s, i, i + Len(f) - 1) = f
             /\ \A j \in 1..(i - 1) : SubSeq(s, j, j + Len(f) - 1) # f) - 1
    ELSE -1

lastIndexOf(s, f) ==
    IF includes(s, f)
    THEN (CHOOSE i \in 1..(Len(s) - Len(f) + 1) :
             /\ SubSeq(s, i, i + Len(f) - 1) = f
             /\ \A j \in (i + 1)..(Len(s) - Len(f) + 1) : SubSeq(s, j, j + Len(f) - 1) # f) - 1
    ELSE -1

\* String.prototype.split with a one-character separator: "" splits to <<"">>
RECURSIVE splitAcc(_, _, _)
splitAcc(s, sep, cur) ==
    IF s = "" THEN <<cur>>
    ELSE IF At(s, 1) = sep THEN <<cur>> \o splitAcc(Tail(s), sep, "")
    ELSE splitAcc(Tail(s), sep, cur \o At(s, 1))

split(s, sep) == splitAcc(s, sep, "")

\* Array.prototype.join
RECURSIVE join(_, _)
join(parts, sep) ==
    IF parts = <<>> THEN ""
    ELSE IF Len(parts) = 1 THEN parts[1]
    ELSE parts[1] \o sep \o join(Tail(parts), sep)

\* Array.prototype.filter(p => p.length > 0)
RECURSIVE nonEmpty(_)
nonEmpty(parts) ==
    IF parts = <<>> THEN <<>>
    ELSE (IF parts[1] = "" THEN <<>> ELSE <<parts[1]>>) \o nonEmpty(Tail(parts))

\* path.split('/').filter(p => p.length > 0)
segments(path) == nonEmpty(split(path, "/"))


\* Number -> decimal string, as template literals and String() render it
RECURSIVE natToString(_)
natToString(n) ==
    IF n < 10 THEN At("0123456789", n + 1)
    ELSE natToString(n \div 10) \o At("0123456789", (n % 10) + 1)

\* String.prototype.repeat
RECURSIVE repeat(_, _)
repeat(s, n) == IF n <= 0 THEN "" ELSE s \o repeat(s, n - 1)

\* String.prototype.replace(search, replacement) with a string search:
\* only the first occurrence is replaced
replaceFirst(s, f, r) ==
    LET i == indexOf(s, f)
    IN IF i < 0 THEN s
       ELSE SubSeq(s, 1, i) \o r \o SubSeq(s, i + Len(f) + 1, Len(s))

(***************************************************************************)
(* Stand-ins for characters of the source a string here cannot hold.       *)
(***************************************************************************)
EmDash == "~"
Bullet == "*"
Backtick == "^"
LastConnector == "+-- "
MidConnector == "|-- "
Continuation == "|   "

(***************************************************************************)
(* Nodes.  One object shape for both variants, as in the source: a          *)
(* directory has children (and, for a project root, projectId), a file has *)
(* content (and, for a link, url).  children is the object's own           *)
(* properties in enumeration order, each [key, node].                      *)
(***************************************************************************)
DirNode(name, path, children, projectId) ==
    [type |-> "directory", name |-> name, path |-> path, children |-> children,
     projectId |-> projectId, content |-> None, url |-> None]

\* a file node as it would be if its path were its name alone
FileNodeRelative(name, path, content, url) ==
    [type |-> "file", name |-> name, path |-> name, children |-> <<>>,
     projectId |-> None, content |-> Some(content), url |-> url]

FileNode(name, path, content, url) ==
    [type |-> "file", name |-> name, path |-> path, children |-> <<>>,
     projectId |-> None, content |-> Some(content), url |-> url]

\* Property names every plain object inherits from Object.prototype
ObjectPrototypeKeys ==
    {"constructor", "toString", "valueOf", "hasOwnProperty", "isPrototypeOf",
     "propertyIsEnumerable", "toLocaleString", "__proto__"}

\* The inherited value found under such a name: a function (or, for
\* __proto__, Object.prototype itself).  It has no type, path, children,
\* content or url; a function has a name.
InheritedObject(key) ==
    [type |-> "undefined",
     name |-> IF key = "__proto__" THEN "" ELSE IF key = "constructor" THEN "Object" ELSE key,
     path |-> "", children |-> <<>>, projectId |-> None, content |-> None, url |-> None]

\* String(value) of such an inherited value, used when it becomes a property key
InheritedAsKey(key) ==
    IF key = "__proto__" THEN "[object Object]"
    ELSE "function " \o (IF key = "constructor" THEN "Object" ELSE key) \o "() { [native code] }"

hasOwn(children, key) == \E i \in 1..Len(children) : children[i].key = key

ownValue(children, key) == children[CHOOSE i \in 1..Len(children) : children[i].key = key].node

\* children[key]: own property, else the prototype chain, else undefined
childGet(children, key) ==
    IF hasOwn(children, key) THEN Some(ownValue(children, key))
    ELSE IF key \in ObjectPrototypeKeys THEN Some(InheritedObject(key))
    ELSE None

\* A canonical array index ("0", "7", "42"): such keys enumerate first, in
\* ascending numeric order, before the string keys in insertion order
isArrayIndex(key) ==
    /\ key # ""
    /\ \A i \in 1..Len(key) : At(key, i) \in Digits
    /\ (Len(key) > 1 => At(key, 1) # "0")

RECURSIVE indexValue(_)
indexValue(key) ==
    IF key = "" THEN 0
    ELSE indexValue(SubSeq(key, 1, Len(key) - 1)) * 10
         + (CHOOSE d \in 0..9 : At("0123456789", d + 1) = At(key, Len(key)))

\* children[key] = node as it would be if every key enumerated in insertion
\* order
childSetAppending(children, key, node) ==
    IF hasOwn(children, key)
    THEN [i \in 1..Len(children) |->
            IF children[i].key = key THEN [key |-> key, node |-> node] ELSE children[i]]
    ELSE Append(children, [key |-> key, node |-> node])

\* children[key] = node
childSet(children, key, node) ==
    IF hasOwn(children, key)
    THEN [i \in 1..Len(children) |->
            IF children[i].key = key THEN [key |-> key, node |-> node] ELSE children[i]]
    ELSE IF isArrayIndex(key)
    THEN LET before == {i \in 1..Len(children) :
                          /\ isArrayIndex(children[i].key)
                          /\ indexValue(children[i].key) < indexValue(key)}
             n == Cardinality(before)
         IN SubSeq(children, 1, n) \o <<[key |-> key, node |-> node]>>
            \o SubSeq(children, n + 1, Len(children))
    ELSE Append(children, [key |-> key, node |-> node])

(***************************************************************************)
(* Tree Builder (VirtualFileSystem._buildFileTree and its helpers).        *)
(* A content record is                                                     *)
(*   [id, title, role, description, problem_statement, architecture_image, *)
(*    technical_highlights, design_decisions, impact_metrics, attachments] *)
(* where the last six are optional (None or Some(value)) and an attachment *)
(* is [url, caption] with an optional caption.                             *)
(***************************************************************************)

\* Values of config/constants.js, imported at ConsoleMode.js:453
RESUME_URL == "/resume.pdf"
EMAIL == "mail@example.com"
GITHUB_URL == "https://github.com/example"
LINKEDIN_URL == "https://linkedin.com/in/example"

SlugChars == LowerLetters \cup Digits

\* .replace(/[^a-z0-9]+/g, '-'): every maximal run of other characters
\* becomes one hyphen
RECURSIVE collapseNonSlug(_, _)
collapseNonSlug(s, inRun) ==
    IF s = "" THEN ""
    ELSE IF At(s, 1) \in SlugChars THEN At(s, 1) \o collapseNonSlug(Tail(s), FALSE)
    ELSE (IF inRun THEN "" ELSE "-") \o collapseNonSlug(Tail(s), TRUE)

\* .replace(/^-+|-+$/g, '')
RECURSIVE stripLeadingHyphens(_)
stripLeadingHyphens(s) ==
    IF s # "" /\ At(s, 1) = "-" THEN stripLeadingHyphens(Tail(s)) ELSE s

RECURSIVE stripTrailingHyphens(_)
stripTrailingHyphens(s) ==
    IF s # "" /\ At(s, Len(s)) = "-"
    THEN stripTrailingHyphens(SubSeq(s, 1, Len(s) - 1)) ELSE s

_generateSlug(title) ==
    stripTrailingHyphens(stripLeadingHyphens(
        collapseNonSlug(trim(split(toLowerCase(title), EmDash)[1]), FALSE)))

_getAboutContent ==
    "RAHEEMUDHEEN MA\nFull-Stack Engineer\n\n"
    \o "I build production systems with a focus on architectural clarity, "
    \o "maintainability, and long-term scalability. My work spans full-stack "
    \o "development, frontend architecture, real-time systems, and product "
    \o "ownership across fintech, logistics, and SaaS domains.\n\n"
    \o "I care about systems thinking, product judgment, and delivering work that lasts."

_getContactContent ==
    "Contact Information:\n\nEmail: " \o EMAIL \o "\nGitHub: " \o GITHUB_URL
    \o "\nLinkedIn: " \o LINKEDIN_URL \o "\nLocation: Kerala, India"

_getSystemInfo ==
    "Portfolio System Information\n\nTechnology Stack:\n"
    \o "- Vanilla JavaScript (ES6+)\n- Vite (Build Tool)\n- GSAP (Animations)\n"
    \o "- LoconativeScroll (Smooth Scrolling)\n- SCSS (Styling)\n\n"
    \o "Architecture:\n- Two-page application (index.html, project.html)\n"
    \o "- URL-based routing with query parameters\n"
    \o "- Centralized data model (project-data.json)\n- Direct DOM manipulation\n"
    \o "- Theme preference in localStorage\n\n"
    \o "Console Mode:\n- Read-only virtual filesystem\n- Lazy-loaded module\n"
    \o "- Zero impact on initial page load"

\* forEach((x, i) => content += before(i) + x + after) over an optional list
RECURSIVE numberedLines(_, _, _, _, _)
numberedLines(items, i, open, close, end) ==
    IF items = <<>> THEN ""
    ELSE open \o natToString(i) \o close \o items[1] \o end
         \o numberedLines(Tail(items), i + 1, open, close, end)

RECURSIVE bulletLines(_)
bulletLines(items) ==
    IF items = <<>> THEN ""
    ELSE Bullet \o " " \o items[1] \o "\n" \o bulletLines(Tail(items))

_formatProjectOverview(project) ==
    project.title \o "\n" \o repeat("=", Len(project.title)) \o "\n\n"
    \o "Role: " \o project.role \o "\n\n"
    \o project.description \o "\n\n"
    \o (IF project.problem_statement # None /\ project.problem_statement[1] # ""
        THEN "Problem Statement:\n" \o project.problem_statement[1] \o "\n" ELSE "")

_formatProjectArchitecture(project) ==
    "Architecture - " \o project.title \o "\n"
    \o repeat("=", Len(project.title) + 15) \o "\n\n"
    \o (IF project.architecture_image # None /\ project.architecture_image[1] # ""
        THEN "Architecture Diagram: /public/" \o project.architecture_image[1] \o "\n\n"
        ELSE "")
    \o (IF project.technical_highlights # None
        THEN "Technical Highlights:\n"
             \o numberedLines(project.technical_highlights[1], 1, "", ". ", "\n")
        ELSE "")

_formatProjectDecisions(project) ==
    "Design Decisions - " \o project.title \o "\n"
    \o repeat("=", Len(project.title) + 18) \o "\n\n"
    \o (IF project.design_decisions # None
        THEN numberedLines(project.design_decisions[1], 1, "[", "] ", "\n\n")
        ELSE "")

_formatProjectImpact(project) ==
    "Impact Metrics - " \o project.title \o "\n"
    \o repeat("=", Len(project.title) + 17) \o "\n\n"
    \o (IF project.impact_metrics # None
        THEN bulletLines(project.impact_metrics[1])
        ELSE "")

\* the loop as it would be if it never ran: the first filename is kept
uniqueFilenameFirst(children, filename, originalFilename, ext, counter) == filename

\* The while loop of _buildAttachmentsDirectory: retry with an incrementing
\* counter until children[filename] is falsy
RECURSIVE uniqueFilename(_, _, _, _, _)
uniqueFilename(children, filename, originalFilename, ext, counter) ==
    IF childGet(children, filename) = None THEN filename
    ELSE uniqueFilename(children,
                        replaceFirst(originalFilename, "." \o ext, "") \o "-"
                            \o natToString(counter) \o "." \o ext,
                        originalFilename, ext, counter + 1)

RECURSIVE attachmentChildren(_, _, _, _)
attachmentChildren(attachments, index, slug, children) ==
    IF index > Len(attachments) THEN children
    ELSE LET att == attachments[index]
             isPdf == endsWith(toLowerCase(att.url), ".pdf")
             ext == IF isPdf THEN "pdf" ELSE "jpg"
             base == _generateSlug(IF att.caption # None /\ att.caption[1] # ""
                                   THEN att.caption[1]
                                   ELSE "attachment-" \o natToString(index))
             first == base \o "." \o ext
             filename == uniqueFilename(children, first, first, ext, 1)
             node == FileNode(filename,
                              "/projects/" \o slug \o "/attachments/" \o filename,
                              "Attachment: "
                                \o (IF att.caption = None THEN "undefined" ELSE att.caption[1])
                                \o "\nType: " \o (IF isPdf THEN "PDF Document" ELSE "Image")
                                \o "\nURL: " \o att.url
                                \o "\n\nUse 'open' command to view.",
                              Some(att.url))
         IN attachmentChildren(attachments, index + 1, slug,
                               childSet(children, filename, node))

_buildAttachmentsDirectory(project, slug) ==
    DirNode("attachments", "/projects/" \o slug \o "/attachments",
            attachmentChildren(project.attachments[1], 1, slug, <<>>), None)

projectNode(project) ==
    LET slug == _generateSlug(project.title)
        base == "/projects/" \o slug
        fixed == << [key |-> "overview",
                     node |-> FileNode("overview", base \o "/overview",
                                       _formatProjectOverview(project), None)],
                    [key |-> "architecture",
                     node |-> FileNode("architecture", base \o "/architecture",
                                       _formatProjectArchitecture(project), None)],
                    [key |-> "decisions.log",
                     node |-> FileNode("decisions.log", base \o "/decisions.log",
                                       _formatProjectDecisions(project), None)],
                    [key |-> "impact",
                     node |-> FileNode("impact", base \o "/impact",
                                       _formatProjectImpact(project), None)] >>
    IN DirNode(slug, base,
               IF project.attachments # None /\ Len(project.attachments[1]) > 0
               THEN childSet(fixed, "attachments", _buildAttachmentsDirectory(project, slug))
               ELSE fixed,
               Some(project.id))

\* the forEach of _buildProjectsDirectory as it would be if a record whose
\* slug is taken were skipped
RECURSIVE projectChildrenKeepFirst(_, _)
projectChildrenKeepFirst(records, children) ==
    IF records = <<>> THEN children
    ELSE projectChildrenKeepFirst(
             Tail(records),
             IF hasOwn(children, _generateSlug(records[1].title)) THEN children
             ELSE childSet(children, _generateSlug(records[1].title),
                           projectNode(records[1])))

RECURSIVE projectChildren(_, _)
projectChildren(records, children) ==
    IF records = <<>> THEN children
    ELSE projectChildren(Tail(records),
                         childSet(children, _generateSlug(records[1].title),
                                  projectNode(records[1])))

\* projectData is None (null) or Some(list of records)
_buildProjectsDirectory(projectData) ==
    DirNode("projects", "/projects",
            IF projectData = None THEN <<>> ELSE projectChildren(projectData[1], <<>>),
            None)

_buildBaseDirectory ==
    DirNode("base", "/base",
            << [key |-> "about",
                node |-> FileNode("about", "/base/about", _getAboutContent, None)],
               [key |-> "contact",
                node |-> FileNode("contact", "/base/contact", _getContactContent, None)],
               [key |-> "resume",
                node |-> FileNode("resume", "/base/resume",
                                  "[Resume Link - Opens in browser]", Some(RESUME_URL))] >>,
            None)

_buildMetaDirectory ==
    DirNode("meta", "/meta",
            << [key |-> "system.info",
                node |-> FileNode("system.info", "/meta/system.info", _getSystemInfo, None)],
               [key |-> "version",
                node |-> FileNode("version", "/meta/version",
                                  "Portfolio v2.0\nLast Updated: January 2026", None)] >>,
            None)

_buildFileTree(projectData) ==
    DirNode("", "/",
            << [key |-> "base", node |-> _buildBaseDirectory],
               [key |-> "projects", node |-> _buildProjectsDirectory(projectData)],
               [key |-> "meta", node |-> _buildMetaDirectory] >>,
            None)

(***************************************************************************)
(* Virtual filesystem queries.  vfs is the VirtualFileSystem object        *)
(* [root, projectData, initialized]; root is None (null) before            *)
(* initialize.  A call that can throw returns Return(value) or             *)
(* Throw(message).                                                         *)
(***************************************************************************)
Return(v) == [threw |-> FALSE, message |-> "", value |-> v]
Throw(m) == [threw |-> TRUE, message |-> m, value |-> None]

\* error.message of the TypeError raised by path.startsWith on undefined
TypeErrorStartsWith == "Cannot read properties of undefined (reading 'startsWith')"

_normalizePath(path) == "/" \o join(segments(path), "/")

\* the loop as it would be if .. were kept as a segment once cwdParts is
\* empty
RECURSIVE applyPartsAboveRoot(_, _)
applyPartsAboveRoot(cwdParts, pathParts) ==
    IF pathParts = <<>> THEN cwdParts
    ELSE LET part == pathParts[1]
         IN applyPartsAboveRoot(IF part = "." THEN cwdParts
                                ELSE IF part = ".." /\ cwdParts # <<>>
                                     THEN SubSeq(cwdParts, 1, Len(cwdParts) - 1)
                                ELSE Append(cwdParts, part),
                                Tail(pathParts))

\* the for loop of _resolveAbsolutePath over the segments of a relative path
RECURSIVE applyParts(_, _)
applyParts(cwdParts, pathParts) ==
    IF pathParts = <<>> THEN cwdParts
    ELSE LET part == pathParts[1]
         IN applyParts(IF part = "." THEN cwdParts
                       ELSE IF part = ".."
                            THEN (IF cwdParts = <<>> THEN <<>>
                                  ELSE SubSeq(cwdParts, 1, Len(cwdParts) - 1))
                       ELSE Append(cwdParts, part),
                       Tail(pathParts))

\* _resolveAbsolutePath as it would be if a relative path were reassembled
\* without the leading slash
_resolveAbsolutePathUnrooted(path, cwd) ==
    IF startsWith(path, "/") THEN _normalizePath(path)
    ELSE join(applyParts(segments(cwd), segments(path)), "/")

_resolveAbsolutePath(path, cwd) ==
    IF startsWith(path, "/") THEN _normalizePath(path)
    ELSE "/" \o join(applyParts(segments(cwd), segments(path)), "/")

\* the for loop of resolvePath; current is a node, the result null (None)
\* or the node reached
RECURSIVE walk(_, _)
walk(current, parts) ==
    IF parts = <<>> THEN Some(current)
    ELSE IF current.type # "directory" THEN None
    ELSE LET next == childGet(current.children, parts[1])
         IN IF next = None THEN None ELSE walk(next[1], Tail(parts))

\* path is Some(string), or None when the caller passes undefined
resolvePath(vfs, path, cwd) ==
    IF ~vfs.initialized THEN Throw("Filesystem not initialized")
    ELSE IF path = None THEN Throw(TypeErrorStartsWith)
    ELSE LET parts == segments(_resolveAbsolutePath(path[1], cwd))
         IN IF parts = <<>> THEN Return(vfs.root)
            ELSE Return(walk(vfs.root[1], parts))

\* node.path of a resolved value: undefined on an inherited object
pathOf(node) == IF node.type = "undefined" THEN None ELSE Some(node.path)

\* a.name.localeCompare(b.name) < 0 on names over [a-z0-9.-]: the collation
\* orders punctuation before digits before letters, "-" before "."
CollationOrder == "-.0123456789abcdefghijklmnopqrstuvwxyz"

rank(c) == IF includes(CollationOrder, c) THEN indexOf(CollationOrder, c) ELSE Len(CollationOrder)

RECURSIVE localeBefore(_, _)
localeBefore(a, b) ==
    IF a = "" THEN b # ""
    ELSE IF b = "" THEN FALSE
    ELSE IF rank(At(a, 1)) # rank(At(b, 1)) THEN rank(At(a, 1)) < rank(At(b, 1))
    ELSE localeBefore(Tail(a), Tail(b))

\* the comparator of listDirectory: a sorts before b
entryBefore(a, b) ==
    IF a.type # b.type THEN a.type = "directory"
    ELSE localeBefore(a.name, b.name)

\* Array.prototype.sort (stable) with that comparator
RECURSIVE insertSorted(_, _)
insertSorted(sorted, e) ==
    IF sorted = <<>> THEN <<e>>
    ELSE IF entryBefore(e, sorted[1]) THEN <<e>> \o sorted
    ELSE <<sorted[1]>> \o insertSorted(Tail(sorted), e)

\* listDirectory's entries as they would be without the call of sort
unsortedEntries(entries) == entries

RECURSIVE sortEntries(_)
sortEntries(entries) ==
    IF entries = <<>> THEN <<>>
    ELSE insertSorted(sortEntries(SubSeq(entries, 1, Len(entries) - 1)),
                      entries[Len(entries)])

listDirectory(vfs, path, cwd) ==
    LET r == resolvePath(vfs, Some(path), cwd)
    IN IF r.threw THEN r
       ELSE IF r.value = None THEN Throw("path not found: " \o path)
       ELSE IF r.value[1].type # "directory" THEN Throw("not a directory: " \o path)
       ELSE LET ch == r.value[1].children
            IN Return(sortEntries([i \in 1..Len(ch) |->
                        [name |-> ch[i].key, type |-> ch[i].node.type,
                         path |-> ch[i].node.path]]))

\* readFile as it would be without the test node.type !== 'file'
readFileAnyNode(vfs, path, cwd) ==
    LET r == resolvePath(vfs, Some(path), cwd)
    IN IF r.threw THEN r
       ELSE IF r.value = None THEN Throw("path not found: " \o path)
       ELSE Return(IF r.value[1].content = None THEN "" ELSE r.value[1].content[1])

readFile(vfs, path, cwd) ==
    LET r == resolvePath(vfs, Some(path), cwd)
    IN IF r.threw THEN r
       ELSE IF r.value = None THEN Throw("path not found: " \o path)
       ELSE IF r.value[1].type # "file" THEN Throw("not a file: " \o path)
       ELSE Return(IF r.value[1].content = None THEN "" ELSE r.value[1].content[1])

\* _buildTreeLines as it would be without the tests against maxDepth
RECURSIVE _buildTreeLinesUnbounded(_, _, _, _, _)
RECURSIVE treeChildrenUnbounded(_, _, _, _, _)
_buildTreeLinesUnbounded(node, prefix, isLast, maxDepth, currentDepth) ==
    <<(IF currentDepth > 0
       THEN prefix \o (IF isLast THEN LastConnector ELSE MidConnector)
       ELSE "")
      \o (IF node.name = "" THEN "/" ELSE node.name)
      \o (IF node.type = "directory" THEN "/" ELSE "")>>
    \o (IF node.type = "directory"
        THEN treeChildrenUnbounded(node.children, 1,
                 IF currentDepth = 0 THEN ""
                 ELSE prefix \o (IF isLast THEN "    " ELSE Continuation),
                 maxDepth, currentDepth + 1)
        ELSE <<>>)

treeChildrenUnbounded(childEntries, index, newPrefix, maxDepth, depth) ==
    IF index > Len(childEntries) THEN <<>>
    ELSE _buildTreeLinesUnbounded(childEntries[index].node, newPrefix,
                                  index = Len(childEntries), maxDepth, depth)
         \o treeChildrenUnbounded(childEntries, index + 1, newPrefix, maxDepth, depth)

\* _buildTreeLines as it would be if the indentation below a node did not
\* depend on whether the node is the last child
RECURSIVE _buildTreeLinesBlankIndent(_, _, _, _, _)
RECURSIVE treeChildrenBlankIndent(_, _, _, _, _)
_buildTreeLinesBlankIndent(node, prefix, isLast, maxDepth, currentDepth) ==
    IF currentDepth > maxDepth THEN <<>>
    ELSE <<(IF currentDepth > 0
            THEN prefix \o (IF isLast THEN LastConnector ELSE MidConnector)
            ELSE "")
           \o (IF node.name = "" THEN "/" ELSE node.name)
           \o (IF node.type = "directory" THEN "/" ELSE "")>>
         \o (IF node.type = "directory" /\ currentDepth < maxDepth
             THEN treeChildrenBlankIndent(node.children, 1,
                      IF currentDepth = 0 THEN "" ELSE prefix \o "    ",
                      maxDepth, currentDepth + 1)
             ELSE <<>>)

treeChildrenBlankIndent(childEntries, index, newPrefix, maxDepth, depth) ==
    IF index > Len(childEntries) THEN <<>>
    ELSE _buildTreeLinesBlankIndent(childEntries[index].node, newPrefix,
                                    index = Len(childEntries), maxDepth, depth)
         \o treeChildrenBlankIndent(childEntries, index + 1, newPrefix, maxDepth, depth)

\* _buildTreeLines returns the lines it pushes, in order
RECURSIVE _buildTreeLines(_, _, _, _, _)
RECURSIVE treeChildren(_, _, _, _, _)
_buildTreeLines(node, prefix, isLast, maxDepth, currentDepth) ==
    IF currentDepth > maxDepth THEN <<>>
    ELSE LET connector == IF isLast THEN LastConnector ELSE MidConnector
             displayName == IF node.name = "" THEN "/" ELSE node.name
             suffix == IF node.type = "directory" THEN "/" ELSE ""
             line == IF currentDepth > 0 THEN prefix \o connector \o displayName \o suffix
                     ELSE displayName \o suffix
             newPrefix == IF currentDepth = 0 THEN ""
                          ELSE prefix \o (IF isLast THEN "    " ELSE Continuation)
         IN <<line>> \o
            (IF node.type = "directory" /\ currentDepth < maxDepth
             THEN treeChildren(node.children, 1, newPrefix, maxDepth, currentDepth + 1)
             ELSE <<>>)

treeChildren(childEntries, index, newPrefix, maxDepth, depth) ==
    IF index > Len(childEntries) THEN <<>>
    ELSE _buildTreeLines(childEntries[index].node, newPrefix,
                         index = Len(childEntries), maxDepth, depth)
         \o treeChildren(childEntries, index + 1, newPrefix, maxDepth, depth)

getTree(vfs, path, depth, cwd) ==
    LET r == resolvePath(vfs, Some(path), cwd)
    IN IF r.threw THEN r
       ELSE IF r.value = None THEN Throw("path not found: " \o path)
       ELSE Return(join(_buildTreeLines(r.value[1], "", TRUE, depth, 0), "\n"))

SnippetRadius == 50

Max(a, b) == IF a > b THEN a ELSE b
Min(a, b) == IF a < b THEN a ELSE b

\* _searchNode as it would be if it compared the content as written
RECURSIVE _searchNodeCaseSensitive(_, _)
RECURSIVE searchChildrenCaseSensitive(_, _, _)
_searchNodeCaseSensitive(node, searchTerm) ==
    (IF node.type = "file" /\ node.content # None /\ node.content[1] # ""
        /\ includes(node.content[1], searchTerm)
     THEN << [path |-> node.path, type |-> "file", snippet |-> node.content[1]] >>
     ELSE <<>>)
    \o (IF node.type = "directory"
        THEN searchChildrenCaseSensitive(node.children, 1, searchTerm)
        ELSE <<>>)

searchChildrenCaseSensitive(childEntries, index, searchTerm) ==
    IF index > Len(childEntries) THEN <<>>
    ELSE _searchNodeCaseSensitive(childEntries[index].node, searchTerm)
         \o searchChildrenCaseSensitive(childEntries, index + 1, searchTerm)

\* _searchNode as it would be if the snippet were cut from the lower-cased
\* content
RECURSIVE _searchNodeLowerSnippet(_, _)
RECURSIVE searchChildrenLowerSnippet(_, _, _)
_searchNodeLowerSnippet(node, searchTerm) ==
    (IF node.type = "file" /\ node.content # None /\ node.content[1] # ""
        /\ includes(toLowerCase(node.content[1]), searchTerm)
     THEN << [path |-> node.path, type |-> "file",
              snippet |->
                (IF indexOf(toLowerCase(node.content[1]), searchTerm) > SnippetRadius
                 THEN "..." ELSE "")
                \o SubSeq(toLowerCase(node.content[1]),
                          Max(0, indexOf(toLowerCase(node.content[1]), searchTerm)
                                 - SnippetRadius) + 1,
                          Min(Len(node.content[1]),
                              indexOf(toLowerCase(node.content[1]), searchTerm)
                              + Len(searchTerm) + SnippetRadius))
                \o (IF indexOf(toLowerCase(node.content[1]), searchTerm)
                       + Len(searchTerm) + SnippetRadius < Len(node.content[1])
                    THEN "..." ELSE "")] >>
     ELSE <<>>)
    \o (IF node.type = "directory"
        THEN searchChildrenLowerSnippet(node.children, 1, searchTerm)
        ELSE <<>>)

searchChildrenLowerSnippet(childEntries, index, searchTerm) ==
    IF index > Len(childEntries) THEN <<>>
    ELSE _searchNodeLowerSnippet(childEntries[index].node, searchTerm)
         \o searchChildrenLowerSnippet(childEntries, index + 1, searchTerm)

\* _searchNode returns the results it pushes, in order
RECURSIVE _searchNode(_, _)
RECURSIVE searchChildren(_, _, _)
_searchNode(node, searchTerm) ==
    (IF node.type = "file" /\ node.content # None /\ node.content[1] # ""
     THEN LET content == toLowerCase(node.content[1])
          IN IF includes(content, searchTerm)
             THEN LET index == indexOf(content, searchTerm)
                      start == Max(0, index - SnippetRadius)
                      end == Min(Len(content), index + Len(searchTerm) + SnippetRadius)
                      snippet == SubSeq(node.content[1], start + 1, end)
                  IN << [path |-> node.path, type |-> "file",
                         snippet |-> (IF start > 0 THEN "..." ELSE "") \o snippet
                                     \o (IF end < Len(content) THEN "..." ELSE "")] >>
             ELSE <<>>
     ELSE <<>>)
    \o (IF node.type = "directory" THEN searchChildren(node.children, 1, searchTerm)
        ELSE <<>>)

searchChildren(childEntries, index, searchTerm) ==
    IF index > Len(childEntries) THEN <<>>
    ELSE _searchNode(childEntries[index].node, searchTerm)
         \o searchChildren(childEntries, index + 1, searchTerm)

\* search as it would be without the test of the keyword
searchAnyKeyword(vfs, keyword) ==
    IF vfs.root = None
    THEN Throw("Cannot read properties of null (reading 'type')")
    ELSE Return(_searchNode(vfs.root[1], toLowerCase(keyword)))

search(vfs, keyword) ==
    IF keyword = "" \/ trim(keyword) = "" THEN Throw("search keyword required")
    ELSE IF vfs.root = None
         THEN Throw("Cannot read properties of null (reading 'type')")
    ELSE Return(_searchNode(vfs.root[1], toLowerCase(keyword)))

\* projectNode?.projectId || null, node.projectId truthy: a present, non-zero id
truthyId(projectId) == projectId # None /\ projectId[1] # 0

getProjectIdFromPath(vfs, path) ==
    LET r == resolvePath(vfs, path, "/")
    IN IF r.threw THEN r
       ELSE IF r.value = None THEN Return(None)
       ELSE IF truthyId(r.value[1].projectId) THEN Return(r.value[1].projectId)
       ELSE LET parts == segments(path[1])
            IN IF Len(parts) >= 2 /\ parts[1] = "projects"
               THEN LET p == resolvePath(vfs, Some("/projects/" \o parts[2]), "/")
                    IN IF p.threw THEN p
                       ELSE IF p.value # None /\ truthyId(p.value[1].projectId)
                            THEN Return(p.value[1].projectId)
                       ELSE Return(None)
               ELSE Return(None)

(***************************************************************************)
(* Command interpreter (CommandParser).                                    *)
(***************************************************************************)

\* this.aliases as it would be with dir bound to tree
aliasesDirAsTree ==
    [a \in {"ls", "cd", "cat", "dir", "pwd", "quit"} |->
        CASE a = "ls" -> "list" [] a = "cd" -> "open" [] a = "cat" -> "read"
          [] a = "dir" -> "tree" [] a = "pwd" -> "cwd" [] a = "quit" -> "exit"]

\* this.aliases
aliases ==
    [a \in {"ls", "cd", "cat", "dir", "pwd", "quit"} |->
        CASE a = "ls" -> "list" [] a = "cd" -> "open" [] a = "cat" -> "read"
          [] a = "dir" -> "list" [] a = "pwd" -> "cwd" [] a = "quit" -> "exit"]

\* Object.keys(this.commands)
CommandNames == {"list", "open", "read", "tree", "search", "help", "clear", "cwd", "exit"}

\* the alias lookup as it would be if an unresolved name fell back to help
canonicalOrHelp(command) ==
    IF command \in DOMAIN aliases THEN aliases[command]
    ELSE IF command \in CommandNames THEN command
    ELSE "help"

\* this.aliases[command] || command, as the key it is then used as
canonicalOf(command) ==
    IF command \in DOMAIN aliases THEN aliases[command]
    ELSE IF command \in ObjectPrototypeKeys THEN InheritedAsKey(command)
    ELSE command

\* _containsShellFeatures as it would be with the pipe left out of the list
_containsShellFeaturesButPipe(input) ==
    \E f \in {">", "<", "&&", "||", ";", Backtick, "$"} : includes(input, f)

ShellFeatures == <<"|", ">", "<", "&&", "||", ";", Backtick, "$">>

_containsShellFeatures(input) ==
    \E i \in 1..Len(ShellFeatures) : includes(input, ShellFeatures[i])

\* One match of /(?:[^\s"]+|"[^"]*")+/ starting at position i: the position
\* after the longest run of pieces (a run of characters that are neither
\* white space nor a quote, or a quoted section with its closing quote);
\* i itself when no piece starts there
RECURSIVE matchEnd(_, _)
matchEnd(s, i) ==
    IF i > Len(s) THEN i
    ELSE IF At(s, i) \notin WhiteSpace /\ At(s, i) # "\""
    THEN matchEnd(s, i + 1)
    ELSE IF At(s, i) = "\"" /\ \E k \in (i + 1)..Len(s) : At(s, k) = "\""
    THEN matchEnd(s, (CHOOSE k \in (i + 1)..Len(s) :
                         /\ At(s, k) = "\""
                         /\ \A j \in (i + 1)..(k - 1) : At(s, j) # "\"") + 1)
    ELSE i

\* input.match(/.../g) || []
RECURSIVE matchAll(_, _)
matchAll(s, i) ==
    IF i > Len(s) THEN <<>>
    ELSE LET e == matchEnd(s, i)
         IN IF e > i THEN <<SubSeq(s, i, e - 1)>> \o matchAll(s, e)
            ELSE matchAll(s, i + 1)

\* arg.replace(/^"|"$/g, '')
stripQuotes(arg) ==
    LET a == IF startsWith(arg, "\"") THEN Tail(arg) ELSE arg
    IN IF endsWith(a, "\"") THEN SubSeq(a, 1, Len(a) - 1) ELSE a

_parseCommand(input) ==
    LET parts == matchAll(input, 1)
    IN [command |-> IF parts = <<>> THEN "" ELSE parts[1],
        args |-> IF parts = <<>> THEN <<>>
                 ELSE [i \in 1..(Len(parts) - 1) |-> stripQuotes(parts[i + 1])]]

\* What a handler hands back: a thrown Error, or its result object, and
\* the cwd it leaves.  Absent properties of the result object are None /
\* FALSE.
Navigation(type, projectId, url) == [type |-> type, projectId |-> projectId, url |-> url]

Handled(output, navigation, exit, clear, cwd) ==
    [threw |-> FALSE, message |-> "", output |-> output, navigation |-> navigation,
     exit |-> exit, clear |-> clear, cwd |-> cwd]

Thrown(message, cwd) ==
    [threw |-> TRUE, message |-> message, output |-> "", navigation |-> None,
     exit |-> FALSE, clear |-> FALSE, cwd |-> cwd]

\* args[0] || '.'
argOr(args, i, default) == IF Len(args) >= i /\ args[i] # "" THEN args[i] ELSE default

RECURSIVE entryLines(_)
entryLines(entries) ==
    IF entries = <<>> THEN <<>>
    ELSE <<entries[1].name \o (IF entries[1].type = "directory" THEN "/" ELSE "")>>
         \o entryLines(Tail(entries))

\* cmdList as it would be if listing a directory also entered it
cmdListEntering(vfs, cwd, args) ==
    LET r == listDirectory(vfs, argOr(args, 1, "."), cwd)
    IN IF r.threw THEN Thrown(r.message, cwd)
       ELSE Handled(join(entryLines(r.value), "\n"), None, FALSE, FALSE,
                    _resolveAbsolutePath(argOr(args, 1, "."), cwd))

cmdList(vfs, cwd, args) ==
    LET r == listDirectory(vfs, argOr(args, 1, "."), cwd)
    IN IF r.threw THEN Thrown(r.message, cwd)
       ELSE IF Len(r.value) = 0 THEN Handled("(empty directory)", None, FALSE, FALSE, cwd)
       ELSE Handled(join(entryLines(r.value), "\n"), None, FALSE, FALSE, cwd)

\* cmdOpen as it would be if it assigned this.cwd from the argument before
\* looking the path up: a failed lookup leaves the argument as cwd
cmdOpenAssignFirst(vfs, cwd, args) ==
    IF Len(args) = 0 THEN Handled("Current directory: " \o cwd, None, FALSE, FALSE, cwd)
    ELSE
      LET path == args[1]
          r == resolvePath(vfs, Some(path), cwd)
      IN IF r.threw THEN Thrown(r.message, path)
         ELSE IF r.value = None THEN Thrown("path not found: " \o path, path)
         ELSE IF r.value[1].type = "directory"
         THEN Handled("Changed directory to " \o r.value[1].path, None, FALSE, FALSE,
                      r.value[1].path)
         ELSE Handled("(empty file)", None, FALSE, FALSE, cwd)

\* cmdOpen as it would be if it stored the argument, not node.path, as cwd
cmdOpenKeepArgument(vfs, cwd, args) ==
    IF Len(args) = 0 THEN Handled("Current directory: " \o cwd, None, FALSE, FALSE, cwd)
    ELSE
      LET path == args[1]
          r == resolvePath(vfs, Some(path), cwd)
      IN IF r.threw THEN Thrown(r.message, cwd)
         ELSE IF r.value = None THEN Thrown("path not found: " \o path, cwd)
         ELSE IF r.value[1].type = "directory"
         THEN Handled("Changed directory to " \o path, None, FALSE, FALSE, path)
         ELSE Handled("(empty file)", None, FALSE, FALSE, cwd)

cmdOpen(vfs, cwd, args) ==
    IF Len(args) = 0 THEN Handled("Current directory: " \o cwd, None, FALSE, FALSE, cwd)
    ELSE
      LET path == args[1]
          r == resolvePath(vfs, Some(path), cwd)
      IN IF r.threw THEN Thrown(r.message, cwd)
         ELSE IF r.value = None THEN Thrown("path not found: " \o path, cwd)
         ELSE
           LET node == r.value[1]
           IN IF node.type = "directory"
              THEN Handled("Changed directory to " \o node.path, None, FALSE, FALSE, node.path)
              ELSE
                LET pid == getProjectIdFromPath(vfs, pathOf(node))
                IN IF pid.threw THEN Thrown(pid.message, cwd)
                   ELSE IF truthyId(pid.value)
                   THEN Handled("Opening project: " \o node.path,
                                Some(Navigation("project", pid.value, None)),
                                FALSE, FALSE, cwd)
                   ELSE IF node.url # None /\ node.url[1] # ""
                   THEN Handled("Opening: " \o node.path,
                                Some(Navigation("url", None, node.url)),
                                FALSE, FALSE, cwd)
                   ELSE Handled(IF node.content = None \/ node.content[1] = ""
                                THEN "(empty file)" ELSE node.content[1],
                                None, FALSE, FALSE, cwd)

cmdRead(vfs, cwd, args) ==
    IF Len(args) = 0 THEN Thrown("read requires a file path", cwd)
    ELSE LET r == readFile(vfs, args[1], cwd)
         IN IF r.threw THEN Thrown(r.message, cwd)
            ELSE Handled(r.value, None, FALSE, FALSE, cwd)

\* parseInt(s, 10): None is NaN.  Leading white space, an optional sign,
\* then the longest run of digits; anything after it is ignored
RECURSIVE digitRun(_)
digitRun(s) ==
    IF s # "" /\ At(s, 1) \in Digits THEN At(s, 1) \o digitRun(Tail(s)) ELSE ""

parseInt(s) ==
    LET t == trimStart(s)
        negative == startsWith(t, "-")
        body == IF startsWith(t, "-") \/ startsWith(t, "+") THEN Tail(t) ELSE t
        digits == digitRun(body)
    IN IF digits = "" THEN None
       ELSE Some(IF negative THEN 0 - indexValue(digits) ELSE indexValue(digits))

\* getProjectPathById(id): null without a root or a projects directory,
\* else the path of the first project directory whose projectId is
\* parseInt(id, 10), else null
RECURSIVE firstWithId(_, _, _)
firstWithId(childEntries, index, projectId) ==
    IF index > Len(childEntries) THEN None
    ELSE IF childEntries[index].node.projectId = projectId
         THEN Some(childEntries[index].node.path)
    ELSE firstWithId(childEntries, index + 1, projectId)

getProjectPathById(vfs, id) ==
    IF vfs.root = None \/ ~hasOwn(vfs.root[1].children, "projects") THEN None
    ELSE IF parseInt(id) = None THEN None
    ELSE firstWithId(ownValue(vfs.root[1].children, "projects").children, 1, parseInt(id))

DefaultTreeDepth == 3

cmdTree(vfs, cwd, args) ==
    LET path == argOr(args, 1, ".")
        depth == IF Len(args) >= 2 /\ args[2] # "" THEN parseInt(args[2])
                 ELSE Some(DefaultTreeDepth)
    IN IF depth = None \/ depth[1] < 1 THEN Thrown("tree depth must be a positive number", cwd)
       ELSE LET r == getTree(vfs, path, depth[1], cwd)
            IN IF r.threw THEN Thrown(r.message, cwd)
               ELSE Handled(r.value, None, FALSE, FALSE, cwd)

RECURSIVE resultLines(_, _)
resultLines(results, i) ==
    IF i > Len(results) THEN <<>>
    ELSE << "[" \o natToString(i) \o "] " \o results[i].path,
            "    " \o results[i].snippet >>
         \o (IF i < Len(results) THEN <<"">> ELSE <<>>)
         \o resultLines(results, i + 1)

cmdSearch(vfs, cwd, args) ==
    IF Len(args) = 0 THEN Thrown("search requires a keyword", cwd)
    ELSE LET keyword == join(args, " ")
             r == search(vfs, keyword)
         IN IF r.threw THEN Thrown(r.message, cwd)
            ELSE IF Len(r.value) = 0
            THEN Handled("No results found for: " \o keyword, None, FALSE, FALSE, cwd)
            ELSE Handled(join(<<"Found " \o natToString(Len(r.value)) \o " result(s) for: "
                                  \o keyword \o "\n">>
                              \o resultLines(r.value, 1), "\n"),
                         None, FALSE, FALSE, cwd)

HelpText ==
    "Console Mode - Available Commands\n\nNAVIGATION:\n"
    \o "  list [path]          List directory contents (alias: ls, dir)\n"
    \o "  open <path>          Navigate to directory or open file (alias: cd)\n"
    \o "  cwd                  Show current working directory (alias: pwd)\n\n"
    \o "FILE OPERATIONS:\n"
    \o "  read <path>          Read file contents (alias: cat)\n"
    \o "  tree [path] [depth]  Display tree structure (default depth: 3)\n\n"
    \o "SEARCH:\n"
    \o "  search <keyword>     Search for keyword across all content\n\n"
    \o "UTILITY:\n"
    \o "  help                 Display this help message\n"
    \o "  clear                Clear console output\n"
    \o "  exit                 Close console (alias: quit)\n\n"
    \o "PATH NOTATION:\n"
    \o "  /                    Root directory\n"
    \o "  .                    Current directory\n"
    \o "  ..                   Parent directory\n"
    \o "  /absolute/path       Absolute path from root\n"
    \o "  relative/path        Relative to current directory\n\n"
    \o "FILESYSTEM STRUCTURE:\n"
    \o "  /base/               About, contact, resume\n"
    \o "  /projects/           Project directories\n"
    \o "  /meta/               System information\n\n"
    \o "KEYBOARD SHORTCUTS:\n"
    \o "  Ctrl+" \o Backtick \o "               Toggle console\n"
    \o "  Ctrl+L               Clear screen\n"
    \o "  Esc                  Close console\n"
    \o "  {up}/{down}          Navigate command history\n"
    \o "  Tab                  Autocomplete (coming soon)\n\n"
    \o "NOTE: This is a read-only portfolio system. Shell features like pipes,\n"
    \o "redirection, and command chaining are not supported."

cmdHelp(vfs, cwd, args) == Handled(HelpText, None, FALSE, FALSE, cwd)

cmdClear(vfs, cwd, args) == Handled("", None, FALSE, TRUE, cwd)

cmdCwd(vfs, cwd, args) == Handled(cwd, None, FALSE, FALSE, cwd)

\* cmdExit as it would be without exit: true in the object it returns
cmdExitWithoutFlag(vfs, cwd, args) == Handled("Closing console...", None, FALSE, FALSE, cwd)

cmdExit(vfs, cwd, args) == Handled("Closing console...", None, TRUE, FALSE, cwd)

\* this.commands[canonicalCommand](args)
dispatch(canonicalCommand, vfs, cwd, args) ==
    CASE canonicalCommand = "list" -> cmdList(vfs, cwd, args)
      [] canonicalCommand = "open" -> cmdOpen(vfs, cwd, args)
      [] canonicalCommand = "read" -> cmdRead(vfs, cwd, args)
      [] canonicalCommand = "tree" -> cmdTree(vfs, cwd, args)
      [] canonicalCommand = "search" -> cmdSearch(vfs, cwd, args)
      [] canonicalCommand = "help" -> cmdHelp(vfs, cwd, args)
      [] canonicalCommand = "clear" -> cmdClear(vfs, cwd, args)
      [] canonicalCommand = "cwd" -> cmdCwd(vfs, cwd, args)
      [] canonicalCommand = "exit" -> cmdExit(vfs, cwd, args)

\* The object execute returns.  keys is the set of properties it has;
\* navigation is None for null (or absent), exit FALSE when absent.
Result(output, error, navigation, exit, keys) ==
    [output |-> output, error |-> error, navigation |-> navigation, exit |-> exit,
     keys |-> keys]

ShellFeaturesMessage ==
    "Error: shell features are not supported. This console exposes a read-only portfolio system."

\* history.push as it would be if a line equal to the newest entry were
\* not recorded again
pushHistoryOnce(history, trimmed) ==
    IF history # <<>> /\ history[Len(history)] = trimmed THEN history
    ELSE Append(history, trimmed)

\* this.history.push(trimmed)
pushHistory(history, trimmed) == Append(history, trimmed)

\* execute(input) on a parser with the given cwd and history: the result
\* it returns, the cwd and history it leaves, and (for observation) whether
\* the line was tokenized and the handler it invoked ("" for none).  The
\* steps of execute are operators that take the value of the step before:
\* trimmed and pushed, parsed, canonicalCommand, the handler's outcome h.
Outcome(result, cwd, history, tokenized, handler) ==
    [result |-> result, cwd |-> cwd, history |-> history, tokenized |-> tokenized,
     handler |-> handler]

\* the try / catch around the handler call
executeHandled(pushed, canonicalCommand, h) ==
    IF h.threw
    THEN Outcome(Result("Error: " \o h.message, TRUE, None, FALSE, {"output", "error"}),
                 h.cwd, pushed, TRUE, canonicalCommand)
    ELSE Outcome(Result(h.output, FALSE, h.navigation, h.exit,
                        {"output", "error", "navigation", "exit"}),
                 h.cwd, pushed, TRUE, canonicalCommand)

\* the test of this.commands[canonicalCommand] and the dispatch
executeCanonical(vfs, cwd, pushed, parsed, canonicalCommand) ==
    IF canonicalCommand \notin CommandNames
    THEN Outcome(Result("Error: unknown command: " \o parsed.command
                          \o ". Type 'help' for available commands.",
                        TRUE, None, FALSE, {"output", "error"}),
                 cwd, pushed, TRUE, "")
    ELSE executeHandled(pushed, canonicalCommand,
                        dispatch(canonicalCommand, vfs, cwd, parsed.args))

\* the alias lookup on the parsed command
executeParsed(vfs, cwd, pushed, parsed) ==
    executeCanonical(vfs, cwd, pushed, parsed, canonicalOf(parsed.command))

\* the shell-features test on the trimmed line, then the tokenizer
executeTrimmed(vfs, cwd, pushed, trimmed) ==
    IF _containsShellFeatures(trimmed)
    THEN Outcome(Result(ShellFeaturesMessage, TRUE, None, FALSE, {"output", "error"}),
                 cwd, pushed, FALSE, "")
    ELSE executeParsed(vfs, cwd, pushed, _parseCommand(trimmed))

execute(vfs, cwd, history, input) ==
    IF input = "" \/ trim(input) = ""
    THEN Outcome(Result("", FALSE, None, FALSE, {"output", "error"}),
                 cwd, history, FALSE, "")
    ELSE executeTrimmed(vfs, cwd, pushHistory(history, trim(input)), trim(input))

\* setCwd as it would be without the test node.type === 'directory'
setCwdAnyNode(vfs, cwd, path) ==
    LET r == resolvePath(vfs, Some(path), "/")
    IN IF r.threw THEN [threw |-> TRUE, returned |-> FALSE, cwd |-> cwd]
       ELSE IF r.value # None
       THEN [threw |-> FALSE, returned |-> TRUE, cwd |-> r.value[1].path]
       ELSE [threw |-> FALSE, returned |-> FALSE, cwd |-> cwd]

\* setCwd(path): the value returned and the cwd left
setCwd(vfs, cwd, path) ==
    LET r == resolvePath(vfs, Some(path), "/")
    IN IF r.threw THEN [threw |-> TRUE, returned |-> FALSE, cwd |-> cwd]
       ELSE IF r.value # None /\ r.value[1].type = "directory"
       THEN [threw |-> FALSE, returned |-> TRUE, cwd |-> r.value[1].path]
       ELSE [threw |-> FALSE, returned |-> FALSE, cwd |-> cwd]

\* Array.prototype.sort() without a comparator: by UTF-16 code unit
CodeUnitOrder ==
    " !\"#$%&'()*+,-./0123456789:;<=>?@ABCDEFGHIJKLMNOPQRSTUVWXYZ[\\]^_abcdefghijklmnopqrstuvwxyz{|}~"

codeUnit(c) == IF includes(CodeUnitOrder, c) THEN indexOf(CodeUnitOrder, c) ELSE Len(CodeUnitOrder)

RECURSIVE codeUnitBefore(_, _)
codeUnitBefore(a, b) ==
    IF a = "" THEN b # ""
    ELSE IF b = "" THEN FALSE
    ELSE IF codeUnit(At(a, 1)) # codeUnit(At(b, 1)) THEN codeUnit(At(a, 1)) < codeUnit(At(b, 1))
    ELSE codeUnitBefore(Tail(a), Tail(b))

RECURSIVE insertString(_, _)
insertString(sorted, e) ==
    IF sorted = <<>> THEN <<e>>
    ELSE IF codeUnitBefore(e, sorted[1]) THEN <<e>> \o sorted
    ELSE <<sorted[1]>> \o insertString(Tail(sorted), e)

RECURSIVE sortStrings(_)
sortStrings(strings) ==
    IF strings = <<>> THEN <<>>
    ELSE insertString(sortStrings(SubSeq(strings, 1, Len(strings) - 1)),
                      strings[Len(strings)])

\* Array.prototype.filter(x => x.startsWith(prefix))
RECURSIVE withPrefix(_, _)
withPrefix(strings, prefix) ==
    IF strings = <<>> THEN <<>>
    ELSE (IF startsWith(strings[1], prefix) THEN <<strings[1]>> ELSE <<>>)
         \o withPrefix(Tail(strings), prefix)

\* the list as it would be without the aliases
CommandsOnly == <<"list", "open", "read", "tree", "search", "help", "clear", "cwd", "exit">>

\* [...Object.keys(this.commands), ...Object.keys(this.aliases)]
AllCommands ==
    <<"list", "open", "read", "tree", "search", "help", "clear", "cwd", "exit",
      "ls", "cd", "cat", "dir", "pwd", "quit">>

RECURSIVE entryNames(_, _)
entryNames(entries, searchPrefix) ==
    IF entries = <<>> THEN <<>>
    ELSE (IF startsWith(entries[1].name, searchPrefix)
          THEN <<entries[1].name \o (IF entries[1].type = "directory" THEN "/" ELSE "")>>
          ELSE <<>>)
         \o entryNames(Tail(entries), searchPrefix)

_getPathSuggestions(vfs, cwd, prefix) ==
    LET hasSlash == includes(prefix, "/")
        lastSlash == lastIndexOf(prefix, "/")
        dirPart == SubSeq(prefix, 1, lastSlash + 1)
        searchPrefix == IF hasSlash THEN SubSeq(prefix, lastSlash + 2, Len(prefix)) ELSE prefix
        dirNode == resolvePath(vfs, Some(dirPart), cwd)
    IN IF hasSlash /\ dirNode.threw THEN <<>>
       ELSE IF hasSlash /\ (dirNode.value = None \/ dirNode.value[1].type # "directory")
       THEN <<>>
       ELSE LET searchDir == IF hasSlash THEN dirNode.value[1].path ELSE cwd
                entries == listDirectory(vfs, searchDir, cwd)
            IN IF entries.threw THEN <<>>
               ELSE sortStrings(entryNames(entries.value, searchPrefix))

getAutocompleteSuggestions(vfs, cwd, partial) ==
    IF partial = "" \/ trim(partial) = "" THEN <<>>
    ELSE LET trimmed == trim(partial)
             parsed == _parseCommand(trimmed)
         IN IF Len(parsed.args) = 0 /\ ~endsWith(trimmed, " ")
            THEN sortStrings(withPrefix(AllCommands, parsed.command))
            ELSE IF canonicalOf(parsed.command) \in CommandNames
            THEN _getPathSuggestions(vfs, cwd,
                     IF Len(parsed.args) > 0 THEN parsed.args[Len(parsed.args)] ELSE "")
            ELSE <<>>

(***************************************************************************)
(* Content records the external collaborator may supply.                   *)
(***************************************************************************)
Attachment(url, caption) == [url |-> url, caption |-> caption]

ProjectAlpha ==
    [id |-> 1, title |-> "Alpha Beta " \o EmDash \o " v2", role |-> "Lead",
     description |-> "About the alpha platform.",
     problem_statement |-> Some("Slow checkout."),
     architecture_image |-> Some("alpha.png"),
     technical_highlights |-> Some(<<"Event queue", "Edge cache">>),
     design_decisions |-> Some(<<"Monolith first">>),
     impact_metrics |-> Some(<<"40% faster">>),
     attachments |-> Some(<< Attachment("/img/shot-a.png", Some("Shot")),
                             Attachment("/img/shot-b.jpg", Some("Shot")),
                             Attachment("/docs/Report.PDF", None) >>)]

ProjectGamma ==
    [id |-> 2, title |-> "Gamma", role |-> "Engineer",
     description |-> "Gamma tracks parcels.",
     problem_statement |-> None, architecture_image |-> None,
     technical_highlights |-> None, design_decisions |-> None,
     impact_metrics |-> None, attachments |-> None]

ProjectZero ==
    [id |-> 0, title |-> "Zero Day", role |-> "Owner",
     description |-> "The first record of the list.",
     problem_statement |-> None, architecture_image |-> None,
     technical_highlights |-> None, design_decisions |-> Some(<<>>),
     impact_metrics |-> None,
     attachments |-> Some(<< Attachment("https://cdn.example/pic.jpg", Some("Pic")) >>)]

\* records whose titles are numbers
Project2048 ==
    [id |-> 3, title |-> "2048", role |-> "Author",
     description |-> "A sliding tile game.",
     problem_statement |-> None, architecture_image |-> None,
     technical_highlights |-> None, design_decisions |-> None,
     impact_metrics |-> None, attachments |-> None]

ProjectSeven ==
    [id |-> 4, title |-> "7", role |-> "Author",
     description |-> "Seven tiles.",
     problem_statement |-> None, architecture_image |-> None,
     technical_highlights |-> None, design_decisions |-> None,
     impact_metrics |-> None, attachments |-> None]

\* a record whose attachments repeat captions, carry captions that look
\* suffixed already or look like the default name, and differ in extension
ProjectShots ==
    [id |-> 5, title |-> "Shots", role |-> "Engineer",
     description |-> "Screens.",
     problem_statement |-> None, architecture_image |-> None,
     technical_highlights |-> None, design_decisions |-> None, impact_metrics |-> None,
     attachments |-> Some(<< Attachment("/img/a.png", Some("Shot")),
                             Attachment("/img/b.png", Some("Shot")),
                             Attachment("/img/c.png", Some("Shot 1")),
                             Attachment("/img/d.png", Some("Shot")),
                             Attachment("/docs/e.pdf", Some("Shot")),
                             Attachment("/img/f.png", Some("attachment-7")),
                             Attachment("/img/g.png", None),
                             Attachment("/img/h.png", Some("!!")),
                             Attachment("/img/i.png", Some("??")) >>)]

\* a record whose title has no letter or digit (the slug is empty), and one
\* whose title gives the slug of ProjectGamma
ProjectPunct ==
    [id |-> 6, title |-> "!!!", role |-> "Engineer", description |-> "Marks.",
     problem_statement |-> None, architecture_image |-> None,
     technical_highlights |-> None, design_decisions |-> None, impact_metrics |-> None,
     attachments |-> Some(<< Attachment("/img/p.png", Some("Shot")) >>)]

ProjectGammaAgain ==
    [id |-> 7, title |-> "GAMMA!", role |-> "Engineer", description |-> "Gamma again.",
     problem_statement |-> None, architecture_image |-> None,
     technical_highlights |-> None, design_decisions |-> None, impact_metrics |-> None,
     attachments |-> Some(<< Attachment("/img/q.png", Some("Shot")),
                             Attachment("/img/r.png", Some("Shot")) >>)]

ProjectDataChoices == { <<ProjectAlpha, ProjectGamma>>, <<ProjectZero, ProjectGamma>> }

(***************************************************************************)
(* State.                                                                  *)
(***************************************************************************)
VARIABLES
    vfs,          \* the VirtualFileSystem object [root, projectData, initialized]
    initialized,  \* ConsoleMode.initialized: the parser has been created
    cwd,          \* CommandParser.cwd
    history,      \* CommandParser.history
    loader,       \* the page's console loader: the module's consoleInstance,
                  \* the closure's consoleLoaded, the toggleConsole calls pending
    ui,           \* ConsoleMode.historyIndex and inputElement.value
    last          \* the last call made on the session and what it returned

vars == <<vfs, initialized, cwd, history, loader, ui, last>>

NoResult == Result("", FALSE, None, FALSE, {})

Call(op, arg, result, returned, suggestions, tokenized, handler) ==
    [op |-> op, arg |-> arg, result |-> result, returned |-> returned,
     suggestions |-> suggestions, tokenized |-> tokenized, handler |-> handler]

\* initConsole: consoleInstance = null, consoleLoaded = false, no
\* toggleConsole call under way and no job in the microtask queue
NotLoaded == [instance |-> FALSE, consoleLoaded |-> FALSE, calls |-> <<>>, jobs |-> <<>>]

\* new ConsoleMode(): historyIndex = -1, and the input field _createUI
\* makes is empty
NewInput == [historyIndex |-> -1, value |-> ""]

\* new ConsoleMode(): an uninitialized filesystem and no parser
Init ==
    /\ vfs = [root |-> None, projectData |-> None, initialized |-> FALSE]
    /\ initialized = FALSE
    /\ cwd = "/"
    /\ history = <<>>
    /\ loader = NotLoaded
    /\ ui = NewInput
    /\ last = Call("new", "", NoResult, FALSE, <<>>, FALSE, "")

\* VirtualFileSystem.initialize as it would be without the test of
\* this.initialized
vfsInitializeAlways(v, projectData) ==
    [root |-> Some(_buildFileTree(Some(projectData))),
     projectData |-> Some(projectData), initialized |-> TRUE]

\* VirtualFileSystem.initialize(projectData)
vfsInitialize(v, projectData) ==
    IF v.initialized THEN v
    ELSE [root |-> Some(_buildFileTree(Some(projectData))),
          projectData |-> Some(projectData), initialized |-> TRUE]

\* ConsoleMode.initialize(projectData): builds the tree and creates the
\* parser (cwd "/", empty history); a repeated call returns at once
Initialize(projectData) ==
    /\ IF initialized
       THEN UNCHANGED <<vfs, initialized, cwd, history>>
       ELSE /\ vfs' = vfsInitialize(vfs, projectData)
            /\ initialized' = TRUE
            /\ cwd' = "/"
            /\ history' = <<>>
    /\ last' = Call("initialize", "", NoResult, FALSE, <<>>, FALSE, "")
    /\ UNCHANGED <<loader, ui>>

\* vfs.initialize(projectData) called again on the file system of an
\* initialized console
VfsInitialize(projectData) ==
    /\ initialized
    /\ vfs' = vfsInitialize(vfs, projectData)
    /\ last' = [records |-> projectData]
               @@ Call("vfs.initialize", "", NoResult, FALSE, <<>>, FALSE, "")
    /\ UNCHANGED <<initialized, cwd, history, loader, ui>>

\* the session after execute(input) returned e
Executed(input, e) ==
    /\ cwd' = e.cwd
    /\ history' = e.history
    /\ last' = Call("execute", input, e.result, FALSE, <<>>, e.tokenized, e.handler)

\* parser.execute(input), reachable once the parser exists
Execute(input) ==
    /\ initialized
    /\ Len(history) < MaxHistory
    /\ Executed(input, execute(vfs, cwd, history, input))
    /\ UNCHANGED <<vfs, initialized, loader, ui>>

\* the session after setCwd(path) returned r
CwdSet(path, r) ==
    /\ cwd' = r.cwd
    /\ last' = Call("setCwd", path, NoResult, r.returned, <<>>, FALSE, "")

\* parser.setCwd(path), as ConsoleMode.setCwd calls it when the parser exists
SetCwd(path) ==
    /\ initialized
    /\ CwdSet(path, setCwd(vfs, cwd, path))
    /\ UNCHANGED <<vfs, initialized, history, loader, ui>>

\* parser.getAutocompleteSuggestions(partial)
Autocomplete(partial) ==
    /\ initialized
    /\ last' = Call("autocomplete", partial, NoResult, FALSE,
                    getAutocompleteSuggestions(vfs, cwd, partial), FALSE, "")
    /\ UNCHANGED <<vfs, initialized, cwd, history, loader, ui>>

\* the session after vfs.getTree(path, depth, cwd) returned or threw r
TreeQueried(path, depth, r) ==
    last' = [depth |-> depth]
            @@ Call("getTree", path,
                    Result(IF r.threw THEN r.message ELSE r.value, r.threw, None, FALSE, {}),
                    FALSE, <<>>, FALSE, "")

\* vfs.getTree(path, depth, cwd), the query behind the tree command, called
\* with the parser's cwd
GetTree(path, depth) ==
    /\ initialized
    /\ TreeQueried(path, depth, getTree(vfs, path, depth, cwd))
    /\ UNCHANGED <<vfs, initialized, cwd, history, loader, ui>>

\* the session after vfs.search(keyword) returned or threw r
Searched(keyword, r) ==
    last' = [results |-> IF r.threw THEN <<>> ELSE r.value]
            @@ Call("search", keyword,
                    Result(IF r.threw THEN r.message ELSE "", r.threw, None, FALSE, {}),
                    FALSE, <<>>, FALSE, "")

\* vfs.search(keyword), the query behind the search command
Search(keyword) ==
    /\ initialized
    /\ Searched(keyword, search(vfs, keyword))
    /\ UNCHANGED <<vfs, initialized, cwd, history, loader, ui>>

\* a call of _resolveAbsolutePath(path, cwd) about to be made, and the call
\* made with the value it returned
\* a call of _resolveAbsolutePath(path, cwd) about to be made, and a call
\* made with the value it returned (first is the path the chain started from)
Resolving(path, base) ==
    [cwd |-> base] @@ Call("path", path, NoResult, FALSE, <<>>, FALSE, "")

Resolved(first, path, base, value) ==
    [first |-> first, cwd |-> base, value |-> value]
    @@ Call("_resolveAbsolutePath", path, NoResult, FALSE, <<>>, FALSE, "")

\* vfs._resolveAbsolutePath on the path and cwd drawn
ResolveAbsolute ==
    /\ last.op = "path"
    /\ last' = Resolved(last.arg, last.arg, last.cwd,
                      _resolveAbsolutePath(last.arg, last.cwd))
    /\ UNCHANGED <<vfs, initialized, cwd, history, loader, ui>>

\* vfs._resolveAbsolutePath on the path the last call returned
ResolveAgain(cwdArg) ==
    /\ last.op = "_resolveAbsolutePath"
    /\ last.arg # last.value \/ last.cwd # cwdArg
    /\ last' = Resolved(last.first, last.value, cwdArg,
                      _resolveAbsolutePath(last.value, cwdArg))
    /\ UNCHANGED <<vfs, initialized, cwd, history, loader, ui>>

\* vfs.resolvePath(path, cwdArg) called on the filesystem as it is: what it
\* returned, or that it threw
ResolvePath(path, cwdArg) ==
    /\ \A r \in {resolvePath(vfs, Some(path), cwdArg)} :
          last' = [cwd |-> cwdArg, threw |-> r.threw,
                   value |-> IF r.threw THEN None ELSE r.value]
                  @@ Call("resolvePath", path, NoResult, FALSE, <<>>, FALSE, "")
    /\ UNCHANGED <<vfs, initialized, cwd, history, loader, ui>>

\* parser._parseCommand(input): the command and the arguments it returns
ParseCommand(input) ==
    /\ \A parsed \in {_parseCommand(input)} :
          last' = [command |-> parsed.command, args |-> parsed.args]
                  @@ Call("_parseCommand", input, NoResult, FALSE, <<>>, TRUE, "")
    /\ UNCHANGED <<vfs, initialized, cwd, history, loader, ui>>

\* _navigateHistory(direction) on the input field and historyIndex u, with
\* the parser's history: what it leaves in them
_navigateHistory(u, entries, direction) ==
    IF Len(entries) = 0 THEN u
    ELSE IF u.historyIndex = -1
    THEN (IF direction < 0
          THEN [historyIndex |-> Len(entries) - 1, value |-> entries[Len(entries)]]
          ELSE u)
    ELSE IF u.historyIndex + direction >= 0 /\ u.historyIndex + direction < Len(entries)
    THEN [historyIndex |-> u.historyIndex + direction,
          value |-> entries[u.historyIndex + direction + 1]]
    ELSE IF u.historyIndex + direction < 0
    THEN [historyIndex |-> -1, value |-> ""]
    ELSE u

\* the user edits the input field (the key listener exists once the
\* console is initialized)
TypeInput(text) ==
    /\ initialized
    /\ ui' = [ui EXCEPT !.value = text]
    /\ last' = [key |-> "", before |-> ui]
               @@ Call("input", text, NoResult, FALSE, <<>>, FALSE, "")
    /\ UNCHANGED <<vfs, initialized, cwd, history, loader>>

\* Enter: _executeCommand returns on a blank field, and else hands the
\* trimmed field to parser.execute, empties the field and resets
\* historyIndex
KeyEnter ==
    /\ initialized
    /\ IF trim(ui.value) = ""
       THEN /\ last' = [key |-> "Enter", before |-> ui]
                       @@ Call("_executeCommand", ui.value, NoResult, FALSE, <<>>, FALSE, "")
            /\ UNCHANGED <<cwd, history, ui>>
       ELSE /\ Len(history) < MaxHistory
            /\ \A e \in {execute(vfs, cwd, history, trim(ui.value))} :
                  /\ cwd' = e.cwd
                  /\ history' = e.history
                  /\ last' = [key |-> "Enter", before |-> ui]
                             @@ Call("execute", trim(ui.value), e.result, FALSE, <<>>,
                                     e.tokenized, e.handler)
            /\ ui' = [historyIndex |-> -1, value |-> ""]
    /\ UNCHANGED <<vfs, initialized, loader>>

\* ArrowUp (direction -1) and ArrowDown (direction 1)
KeyArrow(direction) ==
    /\ initialized
    /\ ui' = _navigateHistory(ui, history, direction)
    /\ last' = [key |-> IF direction < 0 THEN "ArrowUp" ELSE "ArrowDown", before |-> ui]
               @@ Call("_navigateHistory", ui.value, NoResult, FALSE, <<>>, FALSE, "")
    /\ UNCHANGED <<vfs, initialized, cwd, history, loader>>

\* _handleAutocomplete: the input field it leaves, given the suggestions of
\* the parser (two or more are shown in the output area)
_handleAutocomplete(input, suggestions) ==
    IF Len(suggestions) = 1
    THEN join([split(input, " ") EXCEPT ![Len(split(input, " "))] = suggestions[1]], " ")
    ELSE input

\* Tab
KeyTab ==
    /\ initialized
    /\ \A suggestions \in {getAutocompleteSuggestions(vfs, cwd, ui.value)} :
          /\ ui' = [ui EXCEPT !.value = _handleAutocomplete(ui.value, suggestions)]
          /\ last' = [key |-> "Tab", before |-> ui]
                     @@ Call("autocomplete", ui.value, NoResult, FALSE, suggestions, FALSE, "")
    /\ UNCHANGED <<vfs, initialized, cwd, history, loader>>

\* the toggleConsole calls that may be under way at once
MaxCalls == 2

\* initialize as it would be if it did not build the tree before suspending
initializeWithoutTree(v, consoleInitialized, projectData) == v

\* The synchronous part of ConsoleMode.initialize(projectData), up to its
\* await: vfs.initialize builds the tree before the function suspends
initializeCalled(v, consoleInitialized, projectData) ==
    IF consoleInitialized THEN v ELSE vfsInitialize(v, projectData)

\* a toggleConsole call under way, suspended at an await
ToggleCall(at, isChecked) == [at |-> at, isChecked |-> isChecked]

without(calls, i) == SubSeq(calls, 1, i - 1) \o SubSeq(calls, i + 1, Len(calls))

\* the microtask queue as it would be if the newest job ran first
enqueueFirst(jobs, i) == <<i>> \o jobs

\* await on a settled promise: the resumption of call i joins the
\* microtask queue behind the jobs already there
enqueue(jobs, i) == Append(jobs, i)

\* the job at the head of the queue is the resumption of call i
isNext(jobs, i) == jobs # <<>> /\ jobs[1] = i

\* the queue once call i, whose job was at its head, has ended: the calls
\* behind it move up by one place
ended(jobs, i) == [k \in 1..(Len(jobs) - 1) |->
                     IF jobs[k + 1] > i THEN jobs[k + 1] - 1 ELSE jobs[k + 1]]

\* The end of toggleConsole(isChecked), with id the page's ?id= parameter:
\* when checked and an id is present, getProjectPathById and, for a path
\* found, ConsoleMode.setCwd (which needs the parser); then show(), which
\* refuses on an uninitialized console, or hide()
Toggled(isChecked, id, path) ==
    /\ cwd' = IF isChecked /\ id # "" /\ path # None /\ initialized
              THEN setCwd(vfs, cwd, path[1]).cwd
              ELSE cwd
    /\ last' = [queried |-> isChecked /\ id # "", shown |-> isChecked /\ initialized]
               @@ Call("toggleConsole", id, NoResult, FALSE, <<>>, FALSE, "")

\* a change of the toggle switch or Ctrl+backtick (an event: it is handled
\* once the microtask queue is empty): toggleConsole(isChecked) runs to its
\* first await, or to its end once consoleLoaded is set
ToggleConsole(isChecked, id) ==
    /\ loader.jobs = <<>>
    /\ IF loader.consoleLoaded
       THEN /\ Toggled(isChecked, id, getProjectPathById(vfs, id))
            /\ UNCHANGED loader
       ELSE /\ Len(loader.calls) < MaxCalls
            /\ loader' = [loader EXCEPT !.calls = Append(@, ToggleCall("loading", isChecked))]
            /\ last' = Call("change", id, NoResult, FALSE, <<>>, FALSE, "")
            /\ UNCHANGED cwd
    /\ UNCHANGED <<vfs, initialized, history, ui>>

\* import, fetch and json have resolved for call i: getConsoleInstance
\* creates the instance and calls initialize on it, which suspends at its
\* await, or finds the instance there and returns it, and toggleConsole
\* awaits what it returned
Loaded(i, projectData) ==
    /\ i \in 1..Len(loader.calls)
    /\ loader.calls[i].at = "loading"
    /\ vfs' = IF loader.instance THEN vfs
              ELSE initializeCalled(vfs, initialized, projectData)
    /\ loader' = [loader EXCEPT !.instance = TRUE,
                                !.calls[i].at = IF loader.instance THEN "returning"
                                                ELSE "initializing",
                                !.jobs = enqueue(@, i)]
    /\ last' = Call("getConsoleInstance", "", NoResult, FALSE, <<>>, FALSE, "")
    /\ UNCHANGED <<initialized, cwd, history, ui>>

\* import or fetch has failed for call i: the catch block returns
LoadFailed(i) ==
    /\ i \in 1..Len(loader.calls)
    /\ loader.calls[i].at = "loading"
    /\ loader' = [loader EXCEPT !.calls = without(@, i),
                                !.jobs = [k \in 1..Len(@) |-> IF @[k] > i THEN @[k] - 1 ELSE @[k]]]
    /\ last' = Call("catch", "", NoResult, FALSE, <<>>, FALSE, "")
    /\ UNCHANGED <<vfs, initialized, cwd, history, ui>>

\* ConsoleMode.initialize resumes after its await: the parser, the UI and
\* the key listener are created and initialized is set; its promise
\* settles, which queues the resumption of getConsoleInstance
InitializeResumed(i) ==
    /\ i \in 1..Len(loader.calls)
    /\ loader.calls[i].at = "initializing"
    /\ isNext(loader.jobs, i)
    /\ initialized' = TRUE
    /\ cwd' = "/"
    /\ history' = <<>>
    /\ loader' = [loader EXCEPT !.calls[i].at = "resolving",
                                !.jobs = enqueue(Tail(@), i)]
    /\ last' = Call("initialize", "", NoResult, FALSE, <<>>, FALSE, "")
    /\ UNCHANGED <<vfs, ui>>

\* getConsoleInstance resumes after its await of initialize and returns the
\* instance: its promise settles, which queues the resumption of
\* toggleConsole
InstanceResolved(i) ==
    /\ i \in 1..Len(loader.calls)
    /\ loader.calls[i].at = "resolving"
    /\ isNext(loader.jobs, i)
    /\ loader' = [loader EXCEPT !.calls[i].at = "returning",
                                !.jobs = enqueue(Tail(@), i)]
    /\ last' = Call("getConsoleInstance", "", NoResult, TRUE, <<>>, FALSE, "")
    /\ UNCHANGED <<vfs, initialized, cwd, history, ui>>

\* getConsoleInstance has returned to call i: consoleLoaded is set and
\* toggleConsole runs to its end
ToggleReturned(i, id) ==
    /\ i \in 1..Len(loader.calls)
    /\ loader.calls[i].at = "returning"
    /\ isNext(loader.jobs, i)
    /\ loader' = [loader EXCEPT !.consoleLoaded = TRUE, !.calls = without(@, i),
                                !.jobs = ended(@, i)]
    /\ Toggled(loader.calls[i].isChecked, id, getProjectPathById(vfs, id))
    /\ UNCHANGED <<vfs, initialized, history, ui>>

(***************************************************************************)
(* Inputs of the exploration and the specifications.  Every specification  *)
(* is the same session (initialize, execute, setCwd) over its own set of   *)
(* input lines.                                                            *)
(***************************************************************************)

\* paths handed to setCwd: project directories (as project.js does), a
\* file, a missing path
SetCwdPaths == {"/projects/gamma", "/projects/alpha-beta/attachments", "/base/about", "/nope"}

\* navigation: open / cd on directories, files, missing paths and an
\* inherited property name, and pwd
NavInputs ==
    {"cd /projects", "cd alpha-beta", "open attachments", "cd ..", "cd",
     "  cd  gamma/ ", "cd overview", "cd /nope", "cd constructor", "pwd"}

Next ==
    \/ \E projectData \in ProjectDataChoices : Initialize(projectData)
    \/ \E input \in NavInputs : Execute(input)
    \/ \E path \in SetCwdPaths : SetCwd(path)

Spec == Init /\ [][Next]_vars

\* opening files: plain files, links, project files, attachments
OpenInputs ==
    {"open /base/resume", "open /base/about", "open shot.jpg",
     "open /projects/alpha-beta/attachments/attachment-3.pdf",
     "open /projects/zero-day/attachments/pic.jpg", "open overview",
     "open /projects/zero-day/overview", "open /meta/version"}

OpenCwdPaths == {"/projects/gamma", "/projects/alpha-beta/attachments", "/base/resume"}

NextOpen ==
    \/ \E projectData \in ProjectDataChoices : Initialize(projectData)
    \/ \E input \in OpenInputs : Execute(input)
    \/ \E path \in OpenCwdPaths : SetCwd(path)

SpecOpen == Init /\ [][NextOpen]_vars

\* lines with each disallowed shell feature, and lines with none
ShellInputs ==
    {"ls | grep x", "cat about > out", "cat < about", "cd /base && ls", "ls || pwd",
     "cd /meta; ls", "cat " \o Backtick \o "pwd" \o Backtick, "cat $HOME",
     "ls &", "cd /base"}

ShellCwdPaths == {"/projects/gamma", "/nope"}

NextShell ==
    \/ \E projectData \in ProjectDataChoices : Initialize(projectData)
    \/ \E input \in ShellInputs : Execute(input)
    \/ \E path \in ShellCwdPaths : SetCwd(path)

SpecShell == Init /\ [][NextShell]_vars

\* blank lines, padded lines, unknown command names, failing commands
LineInputs ==
    {"", "  \t ", " pwd ", "foo", " LS /base ", "constructor", "\"ls\" /",
     "\"", "cd /base", "read"}

NextLine ==
    \/ \E projectData \in ProjectDataChoices : Initialize(projectData)
    \/ \E input \in LineInputs : Execute(input)
    \/ \E path \in ShellCwdPaths : SetCwd(path)

SpecLine == Init /\ [][NextLine]_vars

\* every alias with and without arguments
AliasInputs ==
    {"ls", "dir /projects", "cd base", "cd", "cat overview", "cat", "pwd", "quit",
     "ls nope"}

NextAlias ==
    \/ \E projectData \in ProjectDataChoices : Initialize(projectData)
    \/ \E input \in AliasInputs : Execute(input)
    \/ \E path \in ShellCwdPaths : SetCwd(path)

SpecAlias == Init /\ [][NextAlias]_vars

\* one line for every command, and partial lines for autocomplete
CommandInputs ==
    {"list /projects", "open /meta", "read /base/contact", "tree / 1", "search alpha",
     "help", "clear", "cwd", "exit", "quit"}

Partials == {"c", "cd /projects/"}

NextCommand ==
    \/ Initialize(<<ProjectAlpha, ProjectGamma>>)
    \/ \E input \in CommandInputs : Execute(input)
    \/ \E path \in ShellCwdPaths : SetCwd(path)
    \/ \E partial \in Partials : Autocomplete(partial)

SpecCommand == Init /\ [][NextCommand]_vars

\* read / cat on files, directories, missing paths, an inherited property
\* name, and without a path
ReadInputs ==
    {"read /base/contact", "cat overview", "read attachments/shot.jpg", "read",
     "read /nope", "cat /projects", "read .", "read constructor", "read \"\""}

ReadCwdPaths == {"/projects/gamma", "/projects/alpha-beta"}

NextRead ==
    \/ \E projectData \in ProjectDataChoices : Initialize(projectData)
    \/ \E input \in ReadInputs : Execute(input)
    \/ \E path \in ReadCwdPaths : SetCwd(path)

SpecRead == Init /\ [][NextRead]_vars

\* list / ls / dir on every kind of directory, on a file and a missing path
ListInputs ==
    {"list", "ls /", "dir /projects", "ls attachments", "list /base",
     "ls /projects/gamma", "ls /meta/version", "ls nope", "list ."}

ListCwdPaths == {"/projects/alpha-beta", "/meta"}

\* the record lists of the other specifications, and the empty list
ListProjectData == ProjectDataChoices \cup {<<>>}

NextList ==
    \/ \E projectData \in ListProjectData : Initialize(projectData)
    \/ \E input \in ListInputs : Execute(input)
    \/ \E path \in ListCwdPaths : SetCwd(path)

SpecList == Init /\ [][NextList]_vars

\* getTree on the root, directories at every height, a file and a missing
\* path, for every depth from 0 to one that exceeds the height of the tree
MaxTreeDepth == 5

TreePaths == {"/", ".", "/projects", "attachments", "/base/about", "/nope"}

TreeCwdPaths == {"/projects/alpha-beta", "/projects/gamma"}

NextGetTree ==
    \/ \E projectData \in ProjectDataChoices : Initialize(projectData)
    \/ \E path \in TreeCwdPaths : SetCwd(path)
    \/ \E path \in TreePaths : \E depth \in 0..MaxTreeDepth : GetTree(path, depth)

SpecGetTree == Init /\ [][NextGetTree]_vars

\* tree lines with every form of the depth token, at the prompt of a
\* session whose cwd may have been set to a project directory
TreeInputs ==
    {"tree / 1", "tree", "tree /projects 3", "tree . 9", "tree attachments 01",
     "tree / 1x", "tree / 0", "tree / abc", "tree / -2", "tree / \"\"", "tree /nope 1"}

NextTree ==
    \/ \E projectData \in ProjectDataChoices : Initialize(projectData)
    \/ \E input \in TreeInputs : Execute(input)
    \/ \E path \in TreeCwdPaths : SetCwd(path)

SpecTree == Init /\ [][NextTree]_vars

\* search lines and keywords: a word in the case the content has and in
\* another, a keyword of two words, one that matches nothing, the name of
\* a directory, and the blank forms
SearchInputs == {"search GAMMA tracks", "search", "search \"\"", "search \"   \""}

Keywords == {"alpha", "ALPHA", "attachments", "zzz", ""}

NextSearch ==
    \/ \E projectData \in ProjectDataChoices : Initialize(projectData)
    \/ \E input \in SearchInputs : Execute(input)
    \/ \E keyword \in Keywords : Search(keyword)

SpecSearch == Init /\ [][NextSearch]_vars

\* The resolver on every string of at most MaxPathLen characters over a
\* slash, a dot and a letter (absolute and relative paths, repeated and
\* trailing slashes, . and .. segments), against absolute and relative cwds
MaxPathLen == 4

PathAlphabet == {"/", ".", "a"}

RECURSIVE StringsUpTo(_)
StringsUpTo(n) ==
    IF n = 0 THEN {""}
    ELSE StringsUpTo(n - 1)
         \cup {t \o c : t \in StringsUpTo(n - 1), c \in PathAlphabet}

ResolverCwds == {"/", "/a", "/a/b", "/a/", "b", ""}

InitResolver ==
    /\ vfs = [root |-> None, projectData |-> None, initialized |-> FALSE]
    /\ initialized = FALSE
    /\ cwd = "/"
    /\ history = <<>>
    /\ loader = NotLoaded
    /\ ui = NewInput
    /\ \E path \in StringsUpTo(MaxPathLen) : \E cwdArg \in ResolverCwds :
          last = Resolving(path, cwdArg)

NextResolver ==
    \/ ResolveAbsolute
    \/ \E cwdArg \in ResolverCwds : ResolveAgain(cwdArg)

SpecResolver == InitResolver /\ [][NextResolver]_vars

\* climbing with .. from the root, from a project directory and from an
\* attachments directory, by one level and by more levels than there are
ClimbInputs ==
    {"cd ..", "cd ../..", "cd ../../../..", "cd ../../../../base", "open ./..", "cwd"}

ClimbCwdPaths == {"/projects/alpha-beta/attachments", "/projects/gamma"}

NextClimb ==
    \/ \E projectData \in ProjectDataChoices : Initialize(projectData)
    \/ \E input \in ClimbInputs : Execute(input)
    \/ \E path \in ClimbCwdPaths : SetCwd(path)

SpecClimb == Init /\ [][NextClimb]_vars

\* every kind of call on an initialized console: initialize again with the
\* same and with other records, one line for each command that reads the
\* tree, setCwd, autocomplete over a directory, and the tree and search
\* queries
FrameInputs == {"list /projects", "read /base/contact", "tree . 2", "search gamma"}

NextFrame ==
    \/ \E projectData \in ProjectDataChoices : Initialize(projectData)
    \/ \E projectData \in ProjectDataChoices : VfsInitialize(projectData)
    \/ \E input \in FrameInputs : Execute(input)
    \/ SetCwd("/projects/gamma")
    \/ Autocomplete("cd /projects/")
    \/ GetTree("/projects", 1)
    \/ Search("alpha")

SpecFrame == Init /\ [][NextFrame]_vars

\* The page: changes of the toggle switch while the console loads and
\* after, the loads completing or failing in any order, and Enter and Tab
\* on the console's input once its key listener exists
PageIds == {"", "2"}

LoadInputs == {"list"}

NextLoad ==
    \/ \E isChecked \in BOOLEAN : \E id \in PageIds : ToggleConsole(isChecked, id)
    \/ \E i \in 1..MaxCalls : \E projectData \in ProjectDataChoices : Loaded(i, projectData)
    \/ \E i \in 1..MaxCalls : LoadFailed(i)
    \/ \E i \in 1..MaxCalls : InitializeResumed(i)
    \/ \E i \in 1..MaxCalls : InstanceResolved(i)
    \/ \E i \in 1..MaxCalls : \E id \in PageIds : ToggleReturned(i, id)
    \/ loader.jobs = <<>> /\ \E input \in LoadInputs : Execute(input)
    \/ loader.jobs = <<>> /\ Autocomplete("c")

SpecLoad == Init /\ [][NextLoad]_vars

\* Tab on partial lines: inside the command name (with and without
\* matches, a whole name, leading white space), and past it (a trailing
\* space, a partial name, a directory part that is a directory, a file
\* and missing, a relative directory part)
CompletePartials ==
    {"c", "l", "x", "cd", " p", "tree", "",
     "cd ", "cd /pro", "cd /projects/", "cat /base/a", "ls att", "ls attachments/shot",
     "cd /nope/x", "open /base/about/", "read  ../"}

CompleteCwdPaths == {"/projects/alpha-beta", "/base"}

NextComplete ==
    \/ \E projectData \in ProjectDataChoices : Initialize(projectData)
    \/ \E path \in CompleteCwdPaths : SetCwd(path)
    \/ Execute("cd /projects")
    \/ \E partial \in CompletePartials : Autocomplete(partial)

SpecComplete == Init /\ [][NextComplete]_vars

\* trees built from lists of records of every kind, and searches on them
BuildProjectData ==
    { <<Project2048, ProjectGamma, ProjectSeven>>, <<ProjectGamma, ProjectAlpha>> }

BuildKeywords == {"e", "gamma", "tile"}

BuildInputs == {"search e", "search tile", "list /projects"}

NextBuild ==
    \/ \E projectData \in BuildProjectData : Initialize(projectData)
    \/ \E keyword \in BuildKeywords : Search(keyword)
    \/ \E input \in BuildInputs : Execute(input)

SpecBuild == Init /\ [][NextBuild]_vars

\* searches whose first match lies at the start, in the middle and at the
\* end of short and long files, in either letter case
SnippetKeywords == {"PORTFOLIO", "lasts", "Systems", "alpha", "x"}

SnippetInputs == {"search lasts.", "search Raheemudheen", "search india"}

NextSnippet ==
    \/ \E projectData \in ProjectDataChoices : Initialize(projectData)
    \/ \E keyword \in SnippetKeywords : Search(keyword)
    \/ \E input \in SnippetInputs : Execute(input)

SpecSnippet == Init /\ [][NextSnippet]_vars

\* the walk of resolvePath on paths to directories, to files, through files,
\* to missing names and to names every object inherits
WalkPaths ==
    {"", "/", ".", "..", "base", "/base/about", "about", "/base/about/x", "nope",
     "/projects/gamma/readme", "gamma/../gamma", "/meta//version/", "/base/nope/x",
     "constructor", "/base/toString", "/constructor/name", "__proto__"}

WalkCwds == {"/", "/base", "/projects", "/base/about"}

NextWalk ==
    \/ \E projectData \in ProjectDataChoices : Initialize(projectData)
    \/ \E path \in WalkPaths, cwdArg \in WalkCwds : ResolvePath(path, cwdArg)

SpecWalk == Init /\ [][NextWalk]_vars

\* trees built from no record, from records with and without attachments,
\* with an empty slug, with one slug twice and with the identifier 0
ConstructProjectData ==
    { <<>>, <<ProjectShots>>, <<ProjectAlpha, ProjectPunct>>,
      <<ProjectGamma, ProjectShots, ProjectGammaAgain>>, <<Project2048, ProjectSeven>>,
      <<ProjectZero, ProjectGamma>> }

ConstructInputs == {"cd projects", "cd /", "cd shots/attachments", "cwd"}

NextConstruct ==
    \/ \E projectData \in ConstructProjectData : Initialize(projectData)
    \/ \E input \in ConstructInputs : Execute(input)

SpecConstruct == Init /\ [][NextConstruct]_vars

\* The tokenizer on every line of at most MaxLineLen characters over a
\* letter, a space and a double quote (quoted and unquoted tokens, quotes
\* without a partner, quotes inside tokens, repeated spaces)
MaxLineLen == 5

LineAlphabet == {"a", " ", "\""}

RECURSIVE LinesUpTo(_)
LinesUpTo(n) ==
    IF n = 0 THEN {""}
    ELSE LinesUpTo(n - 1) \cup {t \o c : t \in LinesUpTo(n - 1), c \in LineAlphabet}

NextParse == \E input \in LinesUpTo(MaxLineLen) : ParseCommand(input)

SpecParse == Init /\ [][NextParse]_vars

\* Enter, ArrowUp and ArrowDown on a field the user fills with commands
\* and with blanks while no history entry is selected (an edit of a
\* selected entry is no sequence of these keys)
KeyTexts == {"cwd", " list ", "nope", "  "}

NextKeys ==
    \/ Initialize(<<ProjectAlpha, ProjectGamma>>)
    \/ ui.historyIndex = -1 /\ \E text \in KeyTexts : TypeInput(text)
    \/ KeyEnter
    \/ \E direction \in {-1, 1} : KeyArrow(direction)

SpecKeys == Init /\ [][NextKeys]_vars

\* Tab on lines whose argument has a directory part (absolute, relative,
\* the cwd itself), with one, several and no completions, and on lines
\* without one
TabTexts ==
    {"cd /projects/al", "cd /projects/g", "read /base/ab", "cd ./ba", "cat /base/",
     "open ../meta/ver", "list projects/ga", "cd pro", "he", "cd /nope/x", "c"}

TabCwdPaths == {"/projects", "/projects/gamma"}

NextTab ==
    \/ \E projectData \in ProjectDataChoices : Initialize(projectData)
    \/ \E text \in TabTexts : TypeInput(text)
    \/ KeyTab
    \/ \E path \in TabCwdPaths : SetCwd(path)

SpecTab == Init /\ [][NextTab]_vars

(***************************************************************************)
(* Properties.  A step of the session is identified by the call it records *)
(* in last': the line executed is last'.arg, what execute returned is      *)
(* last'.result, and the unprimed variables are the state before the call. *)
(***************************************************************************)
ExecuteStep == last'.op = "execute"

\* the arguments of the line, as the tokenizer splits them
ArgsOf(input) == _parseCommand(trim(input)).args

\* the node a path names from a working directory, None when there is none
NodeAt(v, path, dir) ==
    LET r == resolvePath(v, Some(path), dir)
    IN IF r.threw THEN None ELSE r.value

IsDirectoryAt(v, path, dir) ==
    NodeAt(v, path, dir) # None /\ NodeAt(v, path, dir)[1].type = "directory"

IsFileAt(v, path, dir) ==
    NodeAt(v, path, dir) # None /\ NodeAt(v, path, dir)[1].type = "file"

\* C1: once the session exists, cwd is an absolute path string that
\* resolves in the tree to an existing directory node, whatever commands
\* and setCwd calls came before.
C1_CwdIsDirectory ==
    initialized => /\ startsWith(cwd, "/")
                   /\ IsDirectoryAt(vfs, cwd, "/")

\* a successful cd into a nested directory has happened
C1_Witness ==
    /\ initialized
    /\ last.op = "execute"
    /\ last.handler = "open"
    /\ ~last.result.error
    /\ cwd = "/projects/alpha-beta/attachments"

\* C3: a command that fails (result marked as an error) leaves cwd, the
\* tree and the session untouched; its only effect is the history entry of
\* the line.
C3_FailureChangesOnlyHistory ==
    [][(ExecuteStep /\ last'.result.error)
         => /\ cwd' = cwd
            /\ vfs' = vfs
            /\ initialized' = initialized
            /\ history' = Append(history, trim(last'.arg))]_vars

\* a cd to a missing path failed after the session had moved to /projects
C3_Witness ==
    /\ last.op = "execute"
    /\ last.arg = "cd /nope"
    /\ last.result.error
    /\ last.handler = "open"
    /\ cwd = "/projects"
    /\ history = <<"cd /projects", "cd /nope">>

\* C8: open / cd on a path that names a directory sets cwd to that
\* directory's canonical absolute path; cwd / pwd returns exactly the
\* current cwd, so it returns the path a preceding cd set; open / cd
\* without an argument reports the cwd and leaves it unchanged.
C8_ChangeDirectory ==
    [][/\ (/\ ExecuteStep
           /\ last'.handler = "open"
           /\ ArgsOf(last'.arg) # <<>>
           /\ IsDirectoryAt(vfs, ArgsOf(last'.arg)[1], cwd))
          => /\ ~last'.result.error
             /\ \A i \in 1..Len(segments(cwd')) : segments(cwd')[i] \notin {".", ".."}
             /\ cwd' = "/" \o join(segments(cwd'), "/")
             /\ NodeAt(vfs, cwd', "/") = NodeAt(vfs, ArgsOf(last'.arg)[1], cwd)
             /\ last'.result.output = "Changed directory to " \o cwd'
       /\ (ExecuteStep /\ last'.handler = "cwd")
          => /\ ~last'.result.error
             /\ last'.result.output = cwd
             /\ cwd' = cwd
       /\ (ExecuteStep /\ last'.handler = "open" /\ ArgsOf(last'.arg) = <<>>)
          => /\ ~last'.result.error
             /\ last'.result.output = "Current directory: " \o cwd
             /\ cwd' = cwd]_vars

\* pwd printed the directory the cd before it had entered by a relative path
C8_Witness ==
    /\ last.op = "execute"
    /\ last.arg = "pwd"
    /\ last.result.output = "/projects/alpha-beta"
    /\ history = <<"cd ..", "pwd">>

\* the commands and the aliases of the console, and the characters and
\* character pairs of shell syntax, as the specification lists them
ClaimCommandNames ==
    {"list", "open", "read", "tree", "search", "help", "clear", "cwd", "exit",
     "ls", "dir", "cd", "cat", "pwd", "quit"}

ClaimAliases ==
    [a \in {"ls", "dir", "cd", "cat", "pwd", "quit"} |->
        IF a \in {"ls", "dir"} THEN "list"
        ELSE IF a = "cd" THEN "open"
        ELSE IF a = "cat" THEN "read"
        ELSE IF a = "pwd" THEN "cwd"
        ELSE "exit"]

ClaimShellSequences == {"|", ">", "<", "&&", "||", ";", Backtick, "$"}

HasShellFeature(input) ==
    \E f \in ClaimShellSequences :
        \E i \in 1..(Len(input) - Len(f) + 1) : SubSeq(input, i, i + Len(f) - 1) = f

\* a line with a character other than white space
NonBlank(input) == \E i \in 1..Len(input) : At(input, i) \notin WhiteSpace

\* C2 as stated: every non-blank line submitted is appended to the history
\* as the raw input, in submission order.  The session violates it: the
\* entry appended is the line without its leading and trailing white space.
C2_RawInputAppended ==
    [][(ExecuteStep /\ NonBlank(last'.arg))
         => history' = Append(history, last'.arg)]_vars

\* C2, amended: every non-blank line submitted is appended to the history,
\* with its leading and trailing white space removed, after the entries
\* already there; a blank line adds nothing; no other operation changes
\* the history of a session, so no earlier entry is changed or removed.
C2_TrimmedInputAppended ==
    [][/\ (ExecuteStep /\ NonBlank(last'.arg))
          => history' = Append(history, trim(last'.arg))
       /\ (ExecuteStep /\ ~NonBlank(last'.arg)) => history' = history
       /\ (initialized /\ ~ExecuteStep) => history' = history]_vars

\* a padded line was submitted twice and is in the history twice, trimmed
C2_Witness ==
    /\ last.op = "execute"
    /\ last.arg = " pwd "
    /\ history = <<"pwd", "pwd">>

\* C6: a line whose command name is neither a command nor an alias yields
\* an error result naming the unknown command; no handler is invoked and
\* cwd is unchanged.
C6_UnknownCommand ==
    [][(/\ ExecuteStep
        /\ NonBlank(last'.arg)
        /\ ~HasShellFeature(last'.arg)
        /\ _parseCommand(trim(last'.arg)).command \notin ClaimCommandNames)
         => /\ last'.result.error
            /\ last'.result.output =
                 "Error: unknown command: " \o _parseCommand(trim(last'.arg)).command
                 \o ". Type 'help' for available commands."
            /\ last'.handler = ""
            /\ last'.result.navigation = None
            /\ ~last'.result.exit
            /\ cwd' = cwd]_vars

\* an unknown command name was rejected in a session that had left the root
C6_Witness ==
    /\ last.op = "execute"
    /\ last.arg = "foo"
    /\ last.result.error
    /\ last.handler = ""
    /\ cwd = "/base"

\* C5: a line containing one of | > < && || ; backtick $ is rejected with
\* the shell-features error result; it is not tokenized, no handler runs,
\* cwd is unchanged, and the line is still recorded in the history.
C5_ShellSyntaxRejected ==
    [][(ExecuteStep /\ HasShellFeature(last'.arg))
         => /\ last'.result.error
            /\ last'.result.output = ShellFeaturesMessage
            /\ last'.result.navigation = None
            /\ ~last'.result.exit
            /\ ~last'.tokenized
            /\ last'.handler = ""
            /\ cwd' = cwd
            /\ history' = Append(history, trim(last'.arg))]_vars

\* a command chain was rejected after a cd had succeeded, and the cd it
\* contains did not run
C5_Witness ==
    /\ last.op = "execute"
    /\ last.arg = "cd /meta; ls"
    /\ last.result.error
    /\ cwd = "/base"
    /\ history = <<"cd /base", "cd /meta; ls">>

\* the line with its alias replaced by the canonical name it stands for
CanonicalForm(input) ==
    LET trimmed == trim(input)
        command == _parseCommand(trimmed).command
    IN ClaimAliases[command] \o SubSeq(trimmed, Len(command) + 1, Len(trimmed))

\* C7: for every alias, every argument list and every state of the
\* session, executing the alias form returns the same result and leaves
\* the same cwd as executing the canonical form with the same arguments.
C7_AliasIsNameSubstitution ==
    [][(/\ ExecuteStep
        /\ NonBlank(last'.arg)
        /\ _parseCommand(trim(last'.arg)).command \in DOMAIN ClaimAliases)
         => /\ last'.result = execute(vfs, cwd, history, CanonicalForm(last'.arg)).result
            /\ cwd' = execute(vfs, cwd, history, CanonicalForm(last'.arg)).cwd
            /\ last'.handler = ClaimAliases[_parseCommand(trim(last'.arg)).command]]_vars

\* cat read a project file by a relative path
C7_Witness ==
    /\ last.op = "execute"
    /\ last.arg = "cat overview"
    /\ ~last.result.error
    /\ last.handler = "read"
    /\ cwd = "/projects/gamma"

\* C4 as stated: no operation other than an execute call that dispatches
\* successfully changes cwd.  The session violates it: setCwd, which the
\* project page calls when the console is opened, changes cwd with no
\* command dispatched.
C4_OnlyDispatchChangesCwd ==
    [][cwd' # cwd
         => (ExecuteStep /\ ~last'.result.error /\ last'.handler = "open")]_vars

\* C4, amended: cwd changes only by a successful open / cd of a directory
\* or by a setCwd(path) call that returns true; list, read, tree, search,
\* help, clear, cwd, exit, failed commands and autocomplete leave it
\* unchanged.
C4_OnlyOpenOrSetCwdChangesCwd ==
    [][cwd' # cwd
         => \/ /\ ExecuteStep
               /\ ~last'.result.error
               /\ last'.handler = "open"
               /\ ArgsOf(last'.arg) # <<>>
               /\ IsDirectoryAt(vfs, ArgsOf(last'.arg)[1], cwd)
            \/ /\ last'.op = "setCwd"
               /\ last'.returned
               /\ IsDirectoryAt(vfs, last'.arg, "/")]_vars

\* setCwd moved a session in which commands had been executed
C4_Witness ==
    /\ last.op = "setCwd"
    /\ last.returned
    /\ cwd = "/projects/gamma"
    /\ history = <<"open /meta", "list /projects">>

\* the file an open / cd step was given, None when its argument names none
OpenedFile ==
    IF /\ ExecuteStep
       /\ last'.handler = "open"
       /\ ArgsOf(last'.arg) # <<>>
       /\ IsFileAt(vfs, ArgsOf(last'.arg)[1], cwd)
    THEN NodeAt(vfs, ArgsOf(last'.arg)[1], cwd)
    ELSE None

HasUrl(node) == node.url # None /\ node.url[1] # ""

\* the content records whose project directory holds the node
RecordsOf(v, node) ==
    LET parts == segments(node.path)
    IN IF Len(parts) >= 3 /\ parts[1] = "projects" /\ v.projectData # None
       THEN {i \in 1..Len(v.projectData[1]) :
               _generateSlug(v.projectData[1][i].title) = parts[2]}
       ELSE {}

\* C9 as stated: opening any file node that carries a URL returns the
\* url navigation intent with that file's URL and leaves cwd unchanged.
\* The session violates it: an attachment file carries a URL, and opening
\* one under a project whose identifier is truthy returns the project
\* navigation intent.
C9_UrlFileOpensUrl ==
    [][(OpenedFile # None /\ HasUrl(OpenedFile[1]))
         => /\ ~last'.result.error
            /\ last'.result.navigation = Some(Navigation("url", None, OpenedFile[1].url))
            /\ cwd' = cwd]_vars

\* C10 as stated: opening a file under a project directory returns the
\* project navigation intent with the identifier of the record the
\* directory was built from; opening a file with neither a record nor a
\* URL returns its content with navigation null.  The session violates
\* it: under the directory of a record whose identifier is 0 the file's
\* content (or its URL intent) is returned and no project intent.
C10_ProjectFileOpensProject ==
    [][/\ (OpenedFile # None /\ RecordsOf(vfs, OpenedFile[1]) # {})
          => /\ ~last'.result.error
             /\ \E i \in RecordsOf(vfs, OpenedFile[1]) :
                  last'.result.navigation =
                    Some(Navigation("project", Some(vfs.projectData[1][i].id), None))
             /\ cwd' = cwd
       /\ (/\ OpenedFile # None
           /\ RecordsOf(vfs, OpenedFile[1]) = {}
           /\ ~HasUrl(OpenedFile[1]))
          => /\ ~last'.result.error
             /\ OpenedFile[1].content # None
             /\ last'.result.output = OpenedFile[1].content[1]
             /\ last'.result.navigation = None
             /\ cwd' = cwd]_vars

\* the command name of a line that reaches the tokenizer, "" for a line
\* that does not (blank, or rejected for shell syntax)
CommandOf(input) ==
    IF NonBlank(input) /\ ~HasShellFeature(input)
    THEN _parseCommand(trim(input)).command
    ELSE ""

\* result.clear is truthy in the object execute returned
ClearFlag(result) == "clear" \in result.keys

\* C11 as stated: executing clear returns a result whose clear flag is
\* true, with error false and cwd unchanged, and no other command returns
\* clear = true.  The session violates it: execute copies output,
\* navigation and exit from the object cmdClear returns and drops clear,
\* so the result of "clear" has no clear flag.
C11_ClearSignalsCaller ==
    [][ExecuteStep
         => /\ (CommandOf(last'.arg) = "clear")
                 => /\ ClearFlag(last'.result)
                    /\ ~last'.result.error
                    /\ cwd' = cwd
            /\ ClearFlag(last'.result) => CommandOf(last'.arg) = "clear"]_vars

\* C12: executing exit or its alias quit returns a result with exit = true
\* and error = false, and no other line yields a result with exit = true.
C12_ExitSignalsCaller ==
    [][ExecuteStep
         => /\ (CommandOf(last'.arg) \in {"exit", "quit"})
                 => /\ last'.result.exit
                    /\ ~last'.result.error
                    /\ last'.handler = "exit"
            /\ last'.result.exit => CommandOf(last'.arg) \in {"exit", "quit"}]_vars

\* quit closed a session in which another command had been executed
C12_Witness ==
    /\ last.op = "execute"
    /\ last.arg = "quit"
    /\ last.result.exit
    /\ ~last.result.error
    /\ history = <<"help", "quit">>

\* the text of a file node: its content, the empty string when it has none
ContentOf(node) == IF node.content = None THEN "" ELSE node.content[1]

\* C13: read / cat on a path that resolves to a file returns the file's
\* content with error false; without an argument, on a path that does not
\* resolve, and on a path that resolves to something that is not a file
\* (a directory), it returns an error result naming the cause; read never
\* changes cwd.
C13_Read ==
    [][(ExecuteStep /\ CommandOf(last'.arg) \in {"read", "cat"})
         => /\ cwd' = cwd
            /\ last'.handler = "read"
            /\ last'.result.navigation = None
            /\ IF ArgsOf(last'.arg) = <<>>
               THEN /\ last'.result.error
                    /\ last'.result.output = "Error: read requires a file path"
               ELSE IF NodeAt(vfs, ArgsOf(last'.arg)[1], cwd) = None
               THEN /\ last'.result.error
                    /\ last'.result.output = "Error: path not found: " \o ArgsOf(last'.arg)[1]
               ELSE IF IsFileAt(vfs, ArgsOf(last'.arg)[1], cwd)
               THEN /\ ~last'.result.error
                    /\ last'.result.output = ContentOf(NodeAt(vfs, ArgsOf(last'.arg)[1], cwd)[1])
               ELSE /\ last'.result.error
                    /\ last'.result.output = "Error: not a file: " \o ArgsOf(last'.arg)[1]]_vars

\* cat printed a project file named by a relative path, and reading a
\* directory had failed before it
C13_Witness ==
    /\ last.op = "execute"
    /\ last.arg = "cat overview"
    /\ ~last.result.error
    /\ last.result.output = "Gamma\n=====\n\nRole: Engineer\n\nGamma tracks parcels.\n\n"
    /\ cwd = "/projects/gamma"
    /\ history = <<"read .", "cat overview">>

\* entries is a listing of the directory node: one entry per child, all
\* directories before all files, and each group in ascending case-sensitive
\* (code unit) order of name
IsListingOf(entries, node) ==
    /\ Len(entries) = Len(node.children)
    /\ \A k \in 1..Len(node.children) :
         Cardinality({i \in 1..Len(entries) :
                        /\ entries[i].name = node.children[k].key
                        /\ entries[i].type = node.children[k].node.type
                        /\ entries[i].path = node.children[k].node.path}) = 1
    /\ \A i \in 1..Len(entries) : \A j \in (i + 1)..Len(entries) :
         /\ ~(entries[i].type = "file" /\ entries[j].type = "directory")
         /\ entries[i].type = entries[j].type
              => codeUnitBefore(entries[i].name, entries[j].name)

\* the path a list line names: its first argument, "." without one
ListedPath(input) == IF ArgsOf(input) = <<>> THEN "." ELSE ArgsOf(input)[1]

\* C14: for every directory, list returns exactly one entry per child,
\* directories before files and each group in case-sensitive
\* lexicographic order of name; the command prints those entries in that
\* order, one per line.
C14_ListOrder ==
    [][(/\ ExecuteStep
        /\ CommandOf(last'.arg) \in {"list", "ls", "dir"}
        /\ IsDirectoryAt(vfs, ListedPath(last'.arg), cwd))
         => \A listed \in {listDirectory(vfs, ListedPath(last'.arg), cwd)} :
            \A node \in {NodeAt(vfs, ListedPath(last'.arg), cwd)[1]} :
              /\ ~last'.result.error
              /\ ~listed.threw
              /\ IsListingOf(listed.value, node)
              /\ last'.result.output =
                   (IF node.children = <<>> THEN "(empty directory)"
                    ELSE join(entryLines(listed.value), "\n"))]_vars

\* the project directories were listed in name order, not in the order of
\* the records
C14_Witness ==
    /\ last.op = "execute"
    /\ last.arg = "dir /projects"
    /\ last.result.output = "gamma/\nzero-day/"

\* the node and its descendants at most n levels below it, parents before
\* children and children in the order the directory holds them
RECURSIVE NodesWithin(_, _)
RECURSIVE ChildNodesWithin(_, _, _)
NodesWithin(node, n) ==
    <<node>> \o (IF n > 0 /\ node.type = "directory"
                 THEN ChildNodesWithin(node.children, 1, n - 1)
                 ELSE <<>>)

ChildNodesWithin(children, k, n) ==
    IF k > Len(children) THEN <<>>
    ELSE NodesWithin(children[k].node, n) \o ChildNodesWithin(children, k + 1, n)

\* the number of levels below the node
RECURSIVE HeightOf(_)
HeightOf(node) ==
    IF node.type # "directory" \/ node.children = <<>> THEN 0
    ELSE 1 + Max(HeightOf(node.children[1].node),
                 IF Len(node.children) = 1 THEN 0
                 ELSE HeightOf([node EXCEPT !.children = Tail(node.children)]) - 1)

\* what a tree line shows of its node: the name ("/" for the root), with a
\* slash after a directory
LabelOf(node) ==
    (IF node.name = "" THEN "/" ELSE node.name)
    \o (IF node.type = "directory" THEN "/" ELSE "")

\* the lines of a text, given the positions of its line breaks
BreaksOf(text) == {i \in 1..Len(text) : At(text, i) = "\n"}

BreakAt(breaks, k, end) ==
    IF k = 0 THEN 0
    ELSE IF k > Cardinality(breaks) THEN end
    ELSE CHOOSE i \in breaks : Cardinality({j \in breaks : j < i}) = k - 1

LinesBetween(text, breaks) ==
    [k \in 1..(Cardinality(breaks) + 1) |->
        SubSeq(text, BreakAt(breaks, k - 1, 0) + 1, BreakAt(breaks, k, Len(text) + 1) - 1)]

LinesOf(text) == LinesBetween(text, BreaksOf(text))

\* lines are the lines of the nodes, one each and in order
LinesShow(lines, nodes) ==
    /\ Len(lines) = Len(nodes)
    /\ \A i \in 1..Len(nodes) : endsWith(lines[i], LabelOf(nodes[i]))

\* C15: getTree(path, N) renders the starting node's line and one line for
\* every descendant at most N levels below it, and nothing deeper: with
\* N = 0 only the starting node's line, with N = 1 that line and one line
\* per direct child, and with N beyond the height of the subtree the whole
\* subtree, without error.
C15_TreeDepthBound ==
    [][(last'.op = "getTree" /\ NodeAt(vfs, last'.arg, cwd) # None)
         => \A node \in {NodeAt(vfs, last'.arg, cwd)[1]} :
            \A lines \in {LinesOf(last'.result.output)} :
              /\ ~last'.result.error
              /\ LinesShow(lines, NodesWithin(node, last'.depth))
              /\ lines[1] = LabelOf(node)
              /\ last'.depth = 0 => Len(lines) = 1
              /\ (last'.depth = 1 /\ node.type = "directory")
                   => Len(lines) = 1 + Len(node.children)
              /\ last'.depth >= HeightOf(node)
                   => LinesShow(lines, NodesWithin(node, HeightOf(node)))
              /\ last'.depth < HeightOf(node)
                   => Len(lines) < Len(NodesWithin(node, HeightOf(node)))]_vars

\* the root was rendered to depth 1 in a tree that is four levels high
C15_Witness ==
    /\ last.op = "getTree"
    /\ last.arg = "/"
    /\ last.depth = 1
    /\ last.result.output = "//\n" \o MidConnector \o "base/\n" \o MidConnector
                            \o "projects/\n" \o LastConnector \o "meta/"
    /\ HeightOf(vfs.root[1]) = 4

\* a token that writes a positive integer: decimal digits, not all of them 0
IsPositiveInteger(token) ==
    /\ token # ""
    /\ \A i \in 1..Len(token) : At(token, i) \in {"0", "1", "2", "3", "4", "5", "6", "7", "8", "9"}
    /\ \E i \in 1..Len(token) : At(token, i) # "0"

InvalidDepth == "Error: tree depth must be a positive number"

\* C16: the tree command accepts a depth token only if it is a positive
\* integer: a tree line whose depth token is anything else gets the
\* invalid-depth error result and nothing is rendered.
C16_DepthMustBePositiveInteger ==
    [][(/\ ExecuteStep
        /\ CommandOf(last'.arg) = "tree"
        /\ Len(ArgsOf(last'.arg)) >= 2
        /\ ~IsPositiveInteger(ArgsOf(last'.arg)[2]))
         => /\ last'.result.error
            /\ last'.result.output = InvalidDepth]_vars

\* The line of a node below the start of a rendering. following[i] tells,
\* for the i-th rendered ancestor below the start and last for the node
\* itself, whether it has following siblings.
RECURSIVE IndentationOf(_, _)
IndentationOf(following, i) ==
    IF i >= Len(following) THEN ""
    ELSE (IF following[i] THEN Continuation ELSE "    ") \o IndentationOf(following, i + 1)

MarkedLine(node, following) ==
    IF following = <<>> THEN LabelOf(node)
    ELSE IndentationOf(following, 1)
         \o (IF following[Len(following)] THEN MidConnector ELSE LastConnector)
         \o LabelOf(node)

RECURSIVE MarkedLines(_, _, _)
RECURSIVE MarkedChildLines(_, _, _, _)
MarkedLines(node, following, n) ==
    <<MarkedLine(node, following)>>
    \o (IF n > 0 /\ node.type = "directory"
        THEN MarkedChildLines(node.children, 1, following, n - 1)
        ELSE <<>>)

MarkedChildLines(children, k, following, n) ==
    IF k > Len(children) THEN <<>>
    ELSE MarkedLines(children[k].node, Append(following, k < Len(children)), n)
         \o MarkedChildLines(children, k + 1, following, n)

\* the path argument of a tree line
TreePath(input) == IF Len(ArgsOf(input)) >= 1 THEN ArgsOf(input)[1] ELSE "."

\* C17: in the output of a tree line every child that is the last of its
\* directory carries the last-child connector and every other child the
\* intermediate connector, and the indentation before the connector has,
\* for each rendered ancestor below the start, a continuation marker when
\* that ancestor has following siblings and blank indentation otherwise;
\* "tree / 1" renders the root line and the three branch lines, only the
\* last of them with the last-child connector.
C17_TreeConnectors ==
    [][(ExecuteStep /\ CommandOf(last'.arg) = "tree" /\ ~last'.result.error)
         => /\ NodeAt(vfs, TreePath(last'.arg), cwd) # None
            /\ \A node \in {NodeAt(vfs, TreePath(last'.arg), cwd)[1]} :
                 \E n \in 1..(HeightOf(node) + 1) :
                    last'.result.output = join(MarkedLines(node, <<>>, n), "\n")
            /\ last'.arg = "tree / 1"
                 => last'.result.output =
                      "//\n" \o MidConnector \o "base/\n" \o MidConnector
                      \o "projects/\n" \o LastConnector \o "meta/"]_vars

\* a rendering of /projects in which the project directory that has a
\* following sibling shows its children behind a continuation marker and
\* the last project directory shows its children behind blank indentation
C17_Witness ==
    /\ last.op = "execute"
    /\ last.arg = "tree /projects 3"
    /\ ~last.result.error
    /\ includes(last.result.output,
                "\n" \o Continuation \o LastConnector \o "attachments/\n")
    /\ includes(last.result.output, "\n    " \o MidConnector \o "overview\n")

\* every node of the tree
SetOf(seq) == {seq[i] : i \in 1..Len(seq)}

AllNodes(v) == SetOf(NodesWithin(v.root[1], HeightOf(v.root[1])))

\* the content contains the keyword, letter case set aside
ContainsFolded(content, keyword) == includes(toLowerCase(content), toLowerCase(keyword))

\* the paths of the files whose content contains the keyword
MatchingPaths(nodes, keyword) ==
    {node.path : node \in {n \in nodes : n.type = "file" /\ ContainsFolded(ContentOf(n), keyword)}}

\* one result for each of the paths and no other result
ResultsAre(results, paths) ==
    /\ {results[i].path : i \in 1..Len(results)} = paths
    /\ Len(results) = Cardinality(paths)

\* C18: search(keyword) returns exactly one result for each file whose
\* content contains the keyword as a case-insensitive substring and no
\* result for any other node; a directory is never a result.  (The tree
\* does not change after construction, so the results of the last search
\* are compared with the tree of the state.)
C18_SearchResults ==
    (last.op = "search" /\ ~last.result.error)
      => /\ ResultsAre(last.results, MatchingPaths(AllNodes(vfs), last.arg))
         /\ \A i \in 1..Len(last.results) : last.results[i].type = "file"

\* the keyword in upper case found files that have it in another case, and
\* not the directory whose name contains it
C18_Witness ==
    /\ last.op = "search"
    /\ last.arg = "ALPHA"
    /\ Len(last.results) >= 3
    /\ \A i \in 1..Len(last.results) : ~includes(last.results[i].snippet, "ALPHA")
    /\ \E i \in 1..Len(last.results) : last.results[i].path = "/projects/alpha-beta/overview"
    /\ \E node \in AllNodes(vfs) :
          /\ node.type = "directory"
          /\ ContainsFolded(node.name, "ALPHA")
          /\ \A i \in 1..Len(last.results) : last.results[i].path # node.path

\* the keyword of a search line: its arguments joined by single spaces
RECURSIVE KeywordOf(_)
KeywordOf(args) ==
    IF args = <<>> THEN ""
    ELSE IF Len(args) = 1 THEN args[1]
    ELSE args[1] \o " " \o KeywordOf(Tail(args))

IsBlank(keyword) == \A i \in 1..Len(keyword) : At(keyword, i) \in {" ", "\t", "\n"}

MissingKeyword == {"search requires a keyword", "search keyword required"}

\* C19: a search whose keyword is blank (absent, an empty quoted token, or a
\* quoted run of whitespace) is rejected with a missing-keyword error and
\* produces no results: the tree is not traversed.
C19_BlankKeywordRejected ==
    [][/\ (ExecuteStep /\ CommandOf(last'.arg) = "search"
              /\ IsBlank(KeywordOf(ArgsOf(last'.arg))))
         => /\ last'.result.error
            /\ \E m \in MissingKeyword : last'.result.output = "Error: " \o m
            /\ cwd' = cwd
       /\ (last'.op = "search" /\ IsBlank(last'.arg))
         => /\ last'.result.error
            /\ last'.result.output \in MissingKeyword
            /\ last'.results = <<>>]_vars

\* blank forms were typed one after the other, the last of them the quoted
\* run of whitespace, and it was rejected
C19_Witness ==
    /\ last.op = "execute"
    /\ last.arg = "search \"   \""
    /\ last.result.error
    /\ last.result.output = "Error: search keyword required"
    /\ Len(history) >= 2
    /\ {history[i] : i \in 1..Len(history)} \subseteq {"search", "search \"\"", "search \"   \""}

\* an absolute path without empty segments: it starts with a slash, has no
\* two slashes in a row and, unless it is the root, no slash at the end
IsNormalizedAbsolute(p) ==
    /\ Len(p) >= 1
    /\ At(p, 1) = "/"
    /\ \A i \in 1..(Len(p) - 1) : ~(At(p, i) = "/" /\ At(p, i + 1) = "/")
    /\ Len(p) > 1 => At(p, Len(p)) # "/"

\* C20: resolveAbsolute returns a normalized absolute path unchanged,
\* whatever the cwd, and resolving the result of a resolution again,
\* against any cwd, returns that result.
C20_ResolveIdempotent ==
    [][/\ (last'.op = "_resolveAbsolutePath" /\ IsNormalizedAbsolute(last'.arg))
            => last'.value = last'.arg
       /\ (last.op = "_resolveAbsolutePath" /\ last'.op = "_resolveAbsolutePath")
            => (last'.arg = last.value /\ last'.value = last.value)]_vars

\* the relative path ../a was resolved against /a/b, and the result was
\* resolved again against a relative cwd
C20_Witness ==
    /\ last.op = "_resolveAbsolutePath"
    /\ last.first = "../a"
    /\ last.arg = "/a/a"
    /\ last.cwd = "b"
    /\ last.value = "/a/a"

\* the parent of a normalized absolute path, the root being its own parent
ParentOf(path) ==
    IF \A i \in 2..Len(path) : At(path, i) # "/" THEN "/"
    ELSE SubSeq(path, 1, (CHOOSE i \in 2..Len(path) :
                            /\ At(path, i) = "/"
                            /\ \A j \in (i + 1)..Len(path) : At(path, j) # "/") - 1)

RECURSIVE AncestorOf(_, _)
AncestorOf(path, k) == IF k = 0 THEN path ELSE AncestorOf(ParentOf(path), k - 1)

\* the relative path of k segments ..
RECURSIVE DotDotPath(_)
DotDotPath(k) == IF k = 1 THEN ".." ELSE "../" \o DotDotPath(k - 1)

\* C21: a relative path of .. segments resolves to the ancestor that many
\* levels up and to "/" once the segments of cwd are exhausted, never to a
\* path above the root: ".." from "/" is "/", and every "cd .." moves cwd
\* to its parent, so that repeated "cd .." reaches "/" and stays there.
C21_RootClamp ==
    [][(ExecuteStep /\ CommandOf(last'.arg) \in {"cd", "open"})
         => \A k \in 1..Len(last'.arg) :
              ArgsOf(last'.arg) = <<DotDotPath(k)>>
                => /\ _resolveAbsolutePath(DotDotPath(k), cwd) = AncestorOf(cwd, k)
                   /\ ~last'.result.error
                   /\ cwd' = AncestorOf(cwd, k)
                   /\ cwd = "/" => cwd' = "/"
                   /\ cwd # "/" => Len(cwd') < Len(cwd)]_vars

\* "cd .." was typed at the root, reached by a climb of more levels than
\* the cwd had, and cwd stayed at the root
C21_Witness ==
    /\ last.op = "execute"
    /\ history = <<"cd ../../../..", "cd ..">>
    /\ ~last.result.error
    /\ cwd = "/"

\* C22: once the tree is built no call changes it: neither the queries and
\* commands, setCwd and autocomplete, nor a second initialize, whatever
\* records it is given.
C22_TreeImmutable ==
    [][vfs.root # None => vfs'.root = vfs.root]_vars

\* initialize was called again with other records than the tree was built
\* from, after a command had run, and the tree is the one built first
C22_Witness ==
    /\ last.op = "vfs.initialize"
    /\ vfs.projectData # None
    /\ last.records # vfs.projectData[1]
    /\ vfs.root = Some(_buildFileTree(vfs.projectData))
    /\ history # <<>>

RECURSIVE Unindented(_)
Unindented(partial) ==
    IF partial # "" /\ At(partial, 1) \in {" ", "\t", "\n"} THEN Unindented(Tail(partial))
    ELSE partial

\* a partial line still inside its first token: there is a token and no
\* white space after it
WithinCommandName(partial) ==
    /\ Unindented(partial) # ""
    /\ \A i \in 1..Len(Unindented(partial)) : At(Unindented(partial), i) \notin {" ", "\t", "\n"}

\* lexicographic order of words over the lower-case letters
LetterRank(c) == CHOOSE i \in 1..26 : At("abcdefghijklmnopqrstuvwxyz", i) = c

RECURSIVE WordBefore(_, _)
WordBefore(a, b) ==
    IF a = "" THEN b # ""
    ELSE IF b = "" THEN FALSE
    ELSE IF At(a, 1) # At(b, 1) THEN LetterRank(At(a, 1)) < LetterRank(At(b, 1))
    ELSE WordBefore(Tail(a), Tail(b))

\* C24: for a partial line that is still within the command-name token,
\* autocomplete returns exactly the command names and aliases that start
\* with the token, each once, in lexicographic order.
C24_CommandSuggestions ==
    [][(last'.op = "autocomplete" /\ WithinCommandName(last'.arg))
         => /\ {last'.suggestions[i] : i \in 1..Len(last'.suggestions)}
                 = {n \in ClaimCommandNames :
                       /\ Len(Unindented(last'.arg)) <= Len(n)
                       /\ SubSeq(n, 1, Len(Unindented(last'.arg))) = Unindented(last'.arg)}
            /\ \A i \in 1..(Len(last'.suggestions) - 1) :
                  WordBefore(last'.suggestions[i], last'.suggestions[i + 1])]_vars

\* the partial line "c" was completed to the four names that start with c,
\* two of them aliases
C24_Witness ==
    /\ last.op = "autocomplete"
    /\ last.arg = "c"
    /\ last.suggestions = <<"cat", "cd", "clear", "cwd">>

\* a partial line past its first token: white space follows the token
PastCommandName(partial) ==
    /\ Unindented(partial) # ""
    /\ \E i \in 1..Len(Unindented(partial)) : At(Unindented(partial), i) \in {" ", "\t", "\n"}

\* what follows the last white space of the partial line, and its parts
\* before and after its last slash
AfterLast(text, chars) ==
    IF \A i \in 1..Len(text) : At(text, i) \notin chars THEN text
    ELSE SubSeq(text, (CHOOSE i \in 1..Len(text) :
                          /\ At(text, i) \in chars
                          /\ \A j \in (i + 1)..Len(text) : At(text, j) \notin chars) + 1,
                Len(text))

LastToken(partial) == AfterLast(partial, {" ", "\t", "\n"})

NamePart(token) == AfterLast(token, {"/"})

DirectoryPart(token) == SubSeq(token, 1, Len(token) - Len(NamePart(token)))

\* the names of the children of a directory that start with a prefix,
\* directories with a slash behind
Completions(node, prefix) ==
    {node.children[k].node.name
       \o (IF node.children[k].node.type = "directory" THEN "/" ELSE "") :
        k \in {j \in 1..Len(node.children) :
                  /\ Len(prefix) <= Len(node.children[j].node.name)
                  /\ SubSeq(node.children[j].node.name, 1, Len(prefix)) = prefix}}

SuggestionsAre(suggestions, names) ==
    /\ {suggestions[i] : i \in 1..Len(suggestions)} = names
    /\ Len(suggestions) = Cardinality(names)
    /\ \A i \in 1..(Len(suggestions) - 1) : codeUnitBefore(suggestions[i], suggestions[i + 1])

\* the directory the last token of a partial line names: cwd without a
\* slash in the token, else what the part up to the last slash resolves to
CompletedDirectory(v, partial, dir) ==
    IF DirectoryPart(LastToken(partial)) = "" THEN NodeAt(v, ".", dir)
    ELSE NodeAt(v, DirectoryPart(LastToken(partial)), dir)

\* C25 as stated: whenever the partial line is past the command name (a
\* separator typed after it, with or without a partial argument) the
\* suggestions are those of a directory listing: none when the part of the
\* last token before its final slash does not resolve to a directory, else
\* the children of that directory whose names start with the remainder,
\* directories with a trailing slash, sorted.  The parser violates it for a
\* command name followed only by white space, which it completes as a
\* command name.
C25_PathSuggestions ==
    [][(last'.op = "autocomplete" /\ PastCommandName(last'.arg))
         => \A dirNode \in {CompletedDirectory(vfs, last'.arg, cwd)} :
              IF dirNode = None \/ dirNode[1].type # "directory"
              THEN last'.suggestions = <<>>
              ELSE SuggestionsAre(last'.suggestions,
                                  Completions(dirNode[1], NamePart(LastToken(last'.arg))))]_vars

\* the same for partial lines that end in a character of an argument
C25_PathSuggestionsWithArgument ==
    [][(last'.op = "autocomplete" /\ PastCommandName(last'.arg)
          /\ LastToken(last'.arg) # "")
         => \A dirNode \in {CompletedDirectory(vfs, last'.arg, cwd)} :
              IF dirNode = None \/ dirNode[1].type # "directory"
              THEN last'.suggestions = <<>>
              ELSE SuggestionsAre(last'.suggestions,
                                  Completions(dirNode[1], NamePart(LastToken(last'.arg))))]_vars

\* The children of a directory in the order the construction inserted
\* them.  The tree builder inserts the fixed names in the order the
\* directory holds them; the project directories it inserts in the order
\* of their records.
RecordRank(records, projectId) ==
    CHOOSE i \in 1..Len(records) :
       /\ Some(records[i].id) = projectId
       /\ \A j \in 1..(i - 1) : Some(records[j].id) # projectId

SortedByRank(children, records) ==
    [k \in 1..Len(children) |->
        children[CHOOSE i \in 1..Len(children) :
            Cardinality({j \in 1..Len(children) :
                RecordRank(records, children[j].node.projectId)
                  < RecordRank(records, children[i].node.projectId)}) = k - 1]]

InsertedChildren(node, records) ==
    IF node.path = "/projects" THEN SortedByRank(node.children, records)
    ELSE node.children

\* the order in which the properties of an object enumerate: the keys that
\* are array indices first, ascending, then the other keys as inserted
IsIndexKey(key) ==
    /\ key # ""
    /\ \A i \in 1..Len(key) : At(key, i) \in {"0", "1", "2", "3", "4", "5", "6", "7", "8", "9"}
    /\ Len(key) > 1 => At(key, 1) # "0"

RECURSIVE DecimalOf(_)
DecimalOf(key) ==
    IF key = "" THEN 0
    ELSE 10 * DecimalOf(SubSeq(key, 1, Len(key) - 1))
         + (CHOOSE d \in 0..9 : At("0123456789", d + 1) = At(key, Len(key)))

EnumerationPlace(children, i) ==
    IF IsIndexKey(children[i].key)
    THEN Cardinality({j \in 1..Len(children) :
                         /\ IsIndexKey(children[j].key)
                         /\ DecimalOf(children[j].key) < DecimalOf(children[i].key)})
    ELSE Cardinality({j \in 1..Len(children) : IsIndexKey(children[j].key)})
         + Cardinality({j \in 1..(i - 1) : ~IsIndexKey(children[j].key)})

Enumerated(children) ==
    [k \in 1..Len(children) |->
        children[CHOOSE i \in 1..Len(children) : EnumerationPlace(children, i) = k - 1]]

\* the paths of the files in the order of a traversal that visits a node
\* before its children, with the children as inserted or as enumerated
RECURSIVE FilesVisited(_, _, _)
RECURSIVE FilesVisitedBelow(_, _, _, _)
FilesVisited(node, records, enumerated) ==
    IF node.type = "file" THEN <<node.path>>
    ELSE FilesVisitedBelow(IF enumerated THEN Enumerated(InsertedChildren(node, records))
                           ELSE InsertedChildren(node, records),
                           1, records, enumerated)

FilesVisitedBelow(children, k, records, enumerated) ==
    IF k > Len(children) THEN <<>>
    ELSE FilesVisited(children[k].node, records, enumerated)
         \o FilesVisitedBelow(children, k + 1, records, enumerated)

PlaceIn(paths, path) == CHOOSE i \in 1..Len(paths) : paths[i] = path

\* the results are in the order of the visit
InOrderOf(results, paths) ==
    /\ \A i \in 1..Len(results) : \E k \in 1..Len(paths) : paths[k] = results[i].path
    /\ \A i \in 1..(Len(results) - 1) :
          PlaceIn(paths, results[i].path) < PlaceIn(paths, results[i + 1].path)

FirstMatch(content, keyword) ==
    (CHOOSE i \in 1..(Len(content) - Len(keyword) + 1) :
        /\ toLowerCase(SubSeq(content, i, i + Len(keyword) - 1)) = toLowerCase(keyword)
        /\ \A j \in 1..(i - 1) :
              toLowerCase(SubSeq(content, j, j + Len(keyword) - 1)) # toLowerCase(keyword)) - 1

WindowStart(content, keyword) ==
    IF FirstMatch(content, keyword) - 50 > 0 THEN FirstMatch(content, keyword) - 50 ELSE 0

WindowEnd(content, keyword) ==
    IF FirstMatch(content, keyword) + Len(keyword) + 50 < Len(content)
    THEN FirstMatch(content, keyword) + Len(keyword) + 50
    ELSE Len(content)

SnippetOf(content, keyword) ==
    (IF WindowStart(content, keyword) > 0 THEN "..." ELSE "")
    \o SubSeq(content, WindowStart(content, keyword) + 1, WindowEnd(content, keyword))
    \o (IF WindowEnd(content, keyword) < Len(content) THEN "..." ELSE "")

\* C27: the snippet of a search result is the content as written from
\* max(0, i - 50) to min(len, i + |keyword| + 50), i the offset of the
\* first match with letter case set aside, with "..." before it exactly
\* when the window starts after offset 0 and "..." behind it exactly when
\* the window ends before the end of the content.
C27_Snippet ==
    (last.op = "search" /\ ~last.result.error)
      => \A i \in 1..Len(last.results) :
            last.results[i].snippet
              = SnippetOf(ContentOf(NodeAt(vfs, last.results[i].path, "/")[1]), last.arg)

\* a search for "Systems" finds "systems" 56 characters into the about file,
\* which goes on for more than 50 characters behind it: the snippet starts
\* at offset 6 and ends at offset 113
C27_Witness ==
    /\ last.op = "search"
    /\ last.arg = "Systems"
    /\ \E i \in 1..Len(last.results) :
          /\ last.results[i].path = "/base/about"
          /\ last.results[i].snippet
               = "...UDHEEN MA\nFull-Stack Engineer\n\nI build production systems with a "
                 \o "focus on architectural clarity, maintainab..."

\* the node reached from node by following each of parts through the
\* children a directory holds, None when a part names no child or the walk
\* would pass through a file
RECURSIVE Followed(_, _)
Followed(node, parts) ==
    IF parts = <<>> THEN Some(node)
    ELSE IF node.type # "directory" THEN None
    ELSE IF ~ \E i \in 1..Len(node.children) : node.children[i].key = parts[1] THEN None
    ELSE Followed(node.children[CHOOSE i \in 1..Len(node.children) :
                                   node.children[i].key = parts[1]].node,
                  Tail(parts))

SegmentsOf(path, base) == segments(_resolveAbsolutePath(path, base))

\* C28: once the filesystem is initialized, resolvePath throws for no path
\* and cwd, returns the root for zero segments, null when a segment names
\* a missing child or the walk would pass through a file, and otherwise
\* the node reached by following the segments through children.
C28_ResolveTotal ==
    (last.op = "resolvePath" /\ vfs.initialized)
      => /\ ~last.threw
         /\ last.value = Followed(vfs.root[1], SegmentsOf(last.arg, last.cwd))

\* the same for paths none of whose segments is a name every object inherits
C28_ResolveTotalOwnNames ==
    (/\ last.op = "resolvePath"
     /\ vfs.initialized
     /\ \A i \in 1..Len(SegmentsOf(last.arg, last.cwd)) :
           SegmentsOf(last.arg, last.cwd)[i] \notin ObjectPrototypeKeys)
      => /\ ~last.threw
         /\ last.value = Followed(vfs.root[1], SegmentsOf(last.arg, last.cwd))

\* resolvePath throws for no path and cwd once the filesystem is initialized
C28_NeverThrows ==
    (last.op = "resolvePath" /\ vfs.initialized) => ~last.threw

\* a parent's path joined with a child's name by "/" (the root's path is
\* the "/" itself)
Joined(parent, name) == IF parent = "/" THEN "/" \o name ELSE parent \o "/" \o name

\* every node below node has the path of its parent joined with its name,
\* and the name under which its parent holds it
RECURSIVE WellFormedBelow(_)
WellFormedBelow(node) ==
    \A i \in 1..Len(node.children) :
        /\ node.children[i].node.name = node.children[i].key
        /\ node.children[i].node.path = Joined(node.path, node.children[i].node.name)
        /\ WellFormedBelow(node.children[i].node)

\* C29: the constructed tree has a single root at path "/", and every
\* other node's path is its parent's path joined with its own name by "/"
\* and its name is the key under which its parent holds it.
C29_TreeWellFormed ==
    vfs.root # None
      => /\ vfs.root[1].path = "/"
         /\ vfs.root[1].type = "directory"
         /\ \A node \in AllNodes(vfs) : node.path = "/" => node = vfs.root[1]
         /\ WellFormedBelow(vfs.root[1])

\* a tree with a project directory under the empty slug, whose attachments
\* directory holds a file
C29_Witness ==
    /\ vfs.root # None
    /\ \E node \in AllNodes(vfs) : node.path = "/projects//attachments/shot.jpg"
    /\ \E node \in AllNodes(vfs) : node.path = "/projects/alpha-beta/attachments/attachment-3.pdf"

\* the name an attachment asks for: the slug of its caption, or of
\* attachment-N when it has none, and the extension its url gives it
ExtensionOf(att) == IF endsWith(toLowerCase(att.url), ".pdf") THEN "pdf" ELSE "jpg"

BaseNameOf(att, index) ==
    _generateSlug(IF att.caption # None /\ att.caption[1] # ""
                  THEN att.caption[1] ELSE "attachment-" \o natToString(index))

Suffixed(att, index, counter) ==
    BaseNameOf(att, index) \o "-" \o natToString(counter) \o "." \o ExtensionOf(att)

Unsuffixed(att, index) == BaseNameOf(att, index) \o "." \o ExtensionOf(att)

\* files holds one file for each of attachments, in their order, under
\* pairwise distinct names: the name asked for when no earlier attachment
\* has it, and else that name with the first of the suffixes -1, -2, ...
\* before the extension that no earlier attachment has
HoldsEach(files, attachments) ==
    /\ Len(files) = Len(attachments)
    /\ \A i, j \in 1..Len(files) : i # j => files[i].key # files[j].key
    /\ \A i \in 1..Len(files) :
          /\ files[i].node.type = "file"
          /\ files[i].node.name = files[i].key
          /\ files[i].node.url = Some(attachments[i].url)
          /\ \A earlier \in { {files[j].key : j \in 1..(i - 1)} } :
                \/ /\ files[i].key = Unsuffixed(attachments[i], i)
                   /\ files[i].key \notin earlier
                \/ /\ Unsuffixed(attachments[i], i) \in earlier
                   /\ \E counter \in 1..Len(files) :
                         /\ files[i].key = Suffixed(attachments[i], i, counter)
                         /\ files[i].key \notin earlier
                         /\ \A c \in 1..(counter - 1) :
                               Suffixed(attachments[i], i, c) \in earlier

\* the directories of the tree that were built for the record
DirectoriesOf(v, project) ==
    {node \in AllNodes(v) :
        /\ node.type = "directory"
        /\ node.path = "/projects/" \o _generateSlug(project.title)
        /\ node.projectId = Some(project.id)}

AttachmentsOf(node) ==
    node.children[CHOOSE i \in 1..Len(node.children) :
                     node.children[i].key = "attachments"].node.children

\* C30: for a record with n attachments, whatever their captions, the
\* attachments directory holds exactly n files under pairwise distinct
\* names, none overwritten, and a repeated name gets an incrementing
\* numeric suffix before the extension.
C30_AttachmentsUnique ==
    vfs.root # None
      => \A r \in 1..Len(vfs.projectData[1]) :
            \A project \in {vfs.projectData[1][r]} :
               (project.attachments # None /\ Len(project.attachments[1]) > 0)
                 => \A node \in DirectoriesOf(vfs, project) :
                       /\ \E i \in 1..Len(node.children) :
                             node.children[i].key = "attachments"
                       /\ HoldsEach(AttachmentsOf(node), project.attachments[1])

KeysOf(children) == [i \in 1..Len(children) |-> children[i].key]

\* the tree of a record whose attachments are captioned "Shot" four times
\* (one a pdf), "Shot 1", "attachment-7" before an uncaptioned seventh, and
\* two captions without a letter or digit
C30_Witness ==
    /\ vfs.root # None
    /\ \E node \in AllNodes(vfs) :
          /\ node.path = "/projects/shots/attachments"
          /\ KeysOf(node.children)
               = << "shot.jpg", "shot-1.jpg", "shot-1-1.jpg", "shot-2.jpg", "shot.pdf",
                    "attachment-7.jpg", "attachment-7-1.jpg", ".jpg", "-1.jpg" >>

\* the directories that /projects holds under the slug
ListedChildren(v, path) ==
    (CHOOSE node \in AllNodes(v) : node.path = path /\ node.type = "directory").children

HeldUnder(v, slug) ==
    {i \in 1..Len(ListedChildren(v, "/projects")) :
        ListedChildren(v, "/projects")[i].key = slug}

\* the record is the last of the list with its slug, and not the first
ReplacesEarlier(records, j) ==
    /\ \E i \in 1..(j - 1) : _generateSlug(records[i].title) = _generateSlug(records[j].title)
    /\ \A k \in (j + 1)..Len(records) :
          _generateSlug(records[k].title) # _generateSlug(records[j].title)

\* C31: when two records of the list derive the same slug, /projects holds
\* a single directory of that name, its contents and identifier are those
\* of the later record, and the earlier record is absent from the tree.
C31_LaterRecordReplaces ==
    vfs.root # None
      => \A records \in {vfs.projectData[1]} :
            \A j \in 1..Len(records) :
               ReplacesEarlier(records, j)
                 => /\ Cardinality(HeldUnder(vfs, _generateSlug(records[j].title))) = 1
                    /\ \A h \in HeldUnder(vfs, _generateSlug(records[j].title)) :
                          /\ ListedChildren(vfs, "/projects")[h].node.projectId
                               = Some(records[j].id)
                          /\ ListedChildren(vfs, "/projects")[h].node = projectNode(records[j])
                    /\ \A i \in 1..(j - 1) :
                          _generateSlug(records[i].title) = _generateSlug(records[j].title)
                            => \A node \in AllNodes(vfs) :
                                  /\ node.projectId # Some(records[i].id)
                                  /\ node.content # Some(_formatProjectOverview(records[i]))

\* the tree built from "Gamma", "Shots" and "GAMMA!": /projects/gamma is
\* the directory of the third record, with its attachments
C31_Witness ==
    /\ vfs.root # None
    /\ Len(vfs.projectData[1]) = 3
    /\ ReplacesEarlier(vfs.projectData[1], 3)
    /\ \E node \in AllNodes(vfs) :
          node.path = "/projects/gamma" /\ node.projectId = Some(7)
    /\ \E node \in AllNodes(vfs) : node.path = "/projects/gamma/attachments/shot-1.jpg"

\* the quote that closes the quoted run opened at position i, 0 when the
\* line has none
ClosingQuote(s, i) ==
    IF \E k \in (i + 1)..Len(s) : At(s, k) = "\""
    THEN CHOOSE k \in (i + 1)..Len(s) :
            At(s, k) = "\"" /\ \A j \in (i + 1)..(k - 1) : At(s, j) # "\""
    ELSE 0

Flushed(token) == IF token = "" THEN <<>> ELSE <<token>>

\* The line split on white space, a double-quoted run (white space
\* included) staying within its token; token is the part of a token read
\* so far.  A quote that no later quote closes is a character of its token.
RECURSIVE TokensFrom(_, _, _)
TokensFrom(s, i, token) ==
    IF i > Len(s) THEN Flushed(token)
    ELSE IF At(s, i) \in WhiteSpace THEN Flushed(token) \o TokensFrom(s, i + 1, "")
    ELSE IF At(s, i) = "\"" /\ ClosingQuote(s, i) > 0
    THEN TokensFrom(s, ClosingQuote(s, i) + 1, token \o SubSeq(s, i, ClosingQuote(s, i)))
    ELSE TokensFrom(s, i + 1, token \o At(s, i))

\* a token in quotes, and a token without the quotes that surround it
IsQuoted(token) == Len(token) >= 2 /\ At(token, 1) = "\"" /\ At(token, Len(token)) = "\""

Unquoted(token) == IF IsQuoted(token) THEN SubSeq(token, 2, Len(token) - 1) ELSE token

TokensOf(line) ==
    [i \in 1..Len(TokensFrom(line, 1, "")) |-> Unquoted(TokensFrom(line, 1, "")[i])]

\* C32: the line is split on white space, a double-quoted run being one
\* token, and the quotes around a quoted token are stripped; the first
\* token is the command name and the other tokens, in order, are the
\* arguments.
C32_Tokenization ==
    last.op = "_parseCommand"
      => \A tokens \in {TokensOf(last.arg)} :
            /\ last.command = (IF tokens = <<>> THEN "" ELSE tokens[1])
            /\ last.args = (IF tokens = <<>> THEN <<>> ELSE Tail(tokens))

\* a line whose command name holds no quote and whose arguments each hold
\* no quote or are one quoted run
WellQuoted(line) ==
    \A tokens \in {TokensFrom(line, 1, "")} :
       \A i \in 1..Len(tokens) :
          \/ \A k \in 1..Len(tokens[i]) : At(tokens[i], k) # "\""
          \/ /\ i > 1
             /\ IsQuoted(tokens[i])
             /\ \A k \in 2..(Len(tokens[i]) - 1) : At(tokens[i], k) # "\""

\* the same for the lines whose quotes each open or close a quoted argument
C32_TokenizationWellQuoted ==
    (last.op = "_parseCommand" /\ WellQuoted(last.arg))
      => \A tokens \in {TokensOf(last.arg)} :
            /\ last.command = (IF tokens = <<>> THEN "" ELSE tokens[1])
            /\ last.args = (IF tokens = <<>> THEN <<>> ELSE Tail(tokens))

\* a canonical path: it starts with a slash, has no empty segment and no
\* two slashes in a row, and none of its segments is . or ..
IsCanonical(p) ==
    /\ IsNormalizedAbsolute(p)
    /\ \A i \in 1..Len(segments(p)) : segments(p)[i] \notin {".", ".."}

\* C33: for every path and cwd, absolute paths with . or .. segments
\* included, _resolveAbsolutePath returns a canonical path.
C33_Canonical ==
    last.op = "_resolveAbsolutePath" => IsCanonical(last.value)

\* the same for the paths that do not start with a slash
C33_CanonicalRelative ==
    (last.op = "_resolveAbsolutePath" /\ ~startsWith(last.arg, "/"))
      => IsCanonical(last.value)

\* an absolute path comes back without empty segments
C33_AbsoluteNormalized ==
    (last.op = "_resolveAbsolutePath" /\ startsWith(last.arg, "/"))
      => IsNormalizedAbsolute(last.value)

\* the cwds a node's path is resolved against
ReachCwds == {"/", "/base", "/projects/gamma", "meta"}

\* resolvePath on the node's own path returns the node, whatever the cwd
ReachedByPath(v, node) ==
    \A base \in ReachCwds :
       \A r \in {resolvePath(v, Some(node.path), base)} :
          ~r.threw /\ r.value = Some(node)

\* C34: every node of the constructed tree is reached through its own
\* path: resolvePath(n.path, cwd) returns n for every node n and cwd.
C34_ReachableByPath ==
    vfs.root # None => \A node \in AllNodes(vfs) : ReachedByPath(vfs, node)

\* the same for the trees in which no record has an empty slug
C34_ReachableByPathNamed ==
    (/\ vfs.root # None
     /\ \A i \in 1..Len(vfs.projectData[1]) :
           _generateSlug(vfs.projectData[1][i].title) # "")
      => \A node \in AllNodes(vfs) : ReachedByPath(vfs, node)

KeyStep(key) == last'.op \in {"execute", "_executeCommand", "_navigateHistory"}
                /\ last'.key = key

\* historyIndex is -1 or an index into the history; while it is an index
\* the field shows the entry at that index;
\* executing a command resets it to -1; ArrowUp from -1 selects the most
\* recent entry, and ArrowUp from an entry other than the oldest selects
\* the next older one
C36_HistoryIndexValid ==
    [][/\ ui'.historyIndex \in -1..(Len(history') - 1)
       /\ ui'.historyIndex # -1 => ui'.value = history'[ui'.historyIndex + 1]
       /\ (KeyStep("Enter") /\ last'.op = "execute") => ui'.historyIndex = -1
       /\ (KeyStep("ArrowUp") /\ history # <<>> /\ ui.historyIndex = -1)
            => ui'.historyIndex = Len(history) - 1
       /\ (KeyStep("ArrowUp") /\ ui.historyIndex > 0)
            => ui'.historyIndex = ui.historyIndex - 1]_vars

\* C36: after any sequence of Enter, ArrowUp and ArrowDown, historyIndex is
\* -1 or a valid index, the field shows history[historyIndex] whenever it
\* is not -1, executing resets it to -1, ArrowUp from -1 selects the most
\* recent entry and each further ArrowUp the next older one, stopping at
\* the oldest.
C36_HistoryNavigation ==
    [][/\ ui'.historyIndex \in -1..(Len(history') - 1)
       /\ ui'.historyIndex # -1 => ui'.value = history'[ui'.historyIndex + 1]
       /\ (KeyStep("Enter") /\ last'.op = "execute") => ui'.historyIndex = -1
       /\ (KeyStep("ArrowUp") /\ history # <<>> /\ ui.historyIndex = -1)
            => ui'.historyIndex = Len(history) - 1
       /\ (KeyStep("ArrowUp") /\ ui.historyIndex > 0)
            => ui'.historyIndex = ui.historyIndex - 1
       /\ (KeyStep("ArrowUp") /\ ui.historyIndex = 0)
            => (ui'.historyIndex = 0 /\ ui'.value = history[1])]_vars

\* ArrowUp on the oldest entry leaves no entry selected and empties the
\* field, and ArrowDown on the most recent entry changes nothing
C36_ArrowsAtTheEnds ==
    [][/\ (KeyStep("ArrowUp") /\ ui.historyIndex = 0)
            => ui' = [historyIndex |-> -1, value |-> ""]
       /\ (KeyStep("ArrowDown") /\ ui.historyIndex = Len(history) - 1)
            => ui' = ui]_vars

\* Tab found one suggestion for a line whose last token has a directory
\* part
CompletedInDirectory ==
    /\ last'.op = "autocomplete"
    /\ last'.key = "Tab"
    /\ Len(last'.suggestions) = 1
    /\ PastCommandName(last'.arg)
    /\ DirectoryPart(LastToken(last'.arg)) # ""

\* the suggestion without the slash that marks a directory
EntryName(suggestion) ==
    IF endsWith(suggestion, "/") THEN SubSeq(suggestion, 1, Len(suggestion) - 1)
    ELSE suggestion

\* C37: when Tab yields one path suggestion for an argument with a
\* directory part, the completed line keeps the directory part, and the
\* completed argument resolves to the suggested entry of the directory
\* that was searched.
C37_CompletionKeepsDirectory ==
    [][CompletedInDirectory
         => /\ ui'.value = SubSeq(last'.arg, 1, Len(last'.arg) - Len(NamePart(LastToken(last'.arg))))
                           \o last'.suggestions[1]
            /\ \A dirNode \in {CompletedDirectory(vfs, last'.arg, cwd)} :
                  /\ dirNode # None
                  /\ NodeAt(vfs, LastToken(ui'.value), cwd)
                       = NodeAt(vfs, dirNode[1].path \o "/" \o EntryName(last'.suggestions[1]), "/")]_vars

\* the completed line is the line with its last token replaced by the
\* suggestion, the directory part gone
C37_CompletionDropsDirectory ==
    [][CompletedInDirectory
         => ui'.value = SubSeq(last'.arg, 1, Len(last'.arg) - Len(LastToken(last'.arg)))
                        \o last'.suggestions[1]]_vars

\* the project directories of the tree, and the nodes beneath one
ProjectDirectories(v) ==
    {ListedChildren(v, "/projects")[i].node : i \in 1..Len(ListedChildren(v, "/projects"))}

Beneath(node) == SetOf(NodesWithin(node, HeightOf(node))) \ {node}

\* paths outside /projects: the root, directories, files, a missing path
OutsidePaths == {"/", "/base", "/base/about", "/meta/version", "/nope", "/meta/projects"}

IdOfPath(v, path) == getProjectIdFromPath(v, Some(path))

\* the lookups on a project directory d: its path gives its identifier,
\* its identifier gives its path, and every node beneath it gives its
\* identifier
RoundTrip(v, d) ==
    /\ ~IdOfPath(v, d.path).threw
    /\ IdOfPath(v, d.path).value = d.projectId
    /\ getProjectPathById(v, natToString(d.projectId[1])) = Some(d.path)
    /\ \A node \in Beneath(d) :
          ~IdOfPath(v, node.path).threw /\ IdOfPath(v, node.path).value = d.projectId

OutsideGivesNull(v) ==
    \A path \in OutsidePaths :
       ~IdOfPath(v, path).threw /\ IdOfPath(v, path).value = None

\* C38: for every project directory d of the tree getProjectIdFromPath of
\* d.path is d's identifier and getProjectPathById of that identifier is
\* d.path, every file and directory beneath d gives the same identifier,
\* and paths outside /projects give null.
C38_LookupsRoundTrip ==
    vfs.root # None
      => /\ \A d \in ProjectDirectories(vfs) : RoundTrip(vfs, d)
         /\ OutsideGivesNull(vfs)

\* the same for the project directories whose identifier is not 0 and
\* whose name is not empty
C38_LookupsRoundTripNamed ==
    vfs.root # None
      => /\ \A d \in ProjectDirectories(vfs) :
               (d.projectId # Some(0) /\ d.name # "") => RoundTrip(vfs, d)
         /\ OutsideGivesNull(vfs)

====
